---- MODULE Spec2Model ----
(***************************************************************************)
(* Polynomial Evaluation Machine (PEM): a model of src/pem/machine.rs,     *)
(* src/pem/inflight_operation.rs and the expression constructors of        *)
(* src/pem/expr.rs.                                                        *)
(*                                                                         *)
(* Option<T> is modelled as a sequence of length 0 (None) or 1 (Some).     *)
(* Result<T, E> is modelled as <<"Ok", t>> or <<"Err", e>>.                *)
(* The pending heap is the backing vector of std::collections::BinaryHeap, *)
(* with its push / pop / sift_up / sift_down_to_bottom, so that the order  *)
(* in which operations of equal key are popped is the one the build        *)
(* produces.                                                               *)
(***************************************************************************)
EXTENDS Integers, Sequences, FiniteSets, TLC

\* the Machine (machine.rs:17-28)
VARIABLES regs, mem, pc, pending_operations, allow_data_race
\* position inside compute, and what the last compute call returned
VARIABLES phase, result
\* history: index of the next instruction of the running program, number
\* of compute calls, number of instructions issued, every operation ever
\* pushed, the operations popped by the last end_cycle, the last step taken
\* and the machine as it was before that step (with the instruction, if the
\* step issued one), the operations whose write was applied, in that order
VARIABLES ip, calls, ninstr, issued, popped, last, pre, retired
\* an expression handle and what weak_eval and strong_eval returned for it
VARIABLES expr, weak, strong
\* read_program: the lines of the file, the number of lines read, the
\* locals program and curr_inst, and what read_program returned
VARIABLES file, lineno, program, curr_inst, outcome
\* the Rc<RefCell<Expr>> cells of pem/mod.rs, each as it was when it was
\* made (history), and the handle a register is bound to
VARIABLES cells, built, bound

machine == <<regs, mem, pc, pending_operations, allow_data_race,
             phase, result, ip, calls, ninstr, issued, popped, last, pre, retired>>
evaluation == <<expr, weak, strong>>
parsing == <<file, lineno, program, curr_inst, outcome>>
sharing == <<cells, built, bound>>
vars == <<machine, evaluation, parsing, sharing>>

(***************************************************************************)
(* Bounds of the model                                                     *)
(***************************************************************************)
\* instructions issued on one machine
MaxInstr == 3
\* operations pushed on one machine
MaxOps == 3
\* compute calls made on one machine
MaxCalls == 3
\* the same for the specification of colliding writers (SpecRace)
MaxRaceInstr == 5
MaxRaceOps == 5
MaxRaceCalls == 1
\* the same for SpecRetry, where failed calls are followed by further calls
MaxRetryInstr == 4
MaxRetryOps == 4
MaxRetryCalls == 4
\* the same for SpecLive
MaxLiveInstr == 3
MaxLiveOps == 2
MaxLiveCalls == 1
\* operators in an expression handed to weak_eval and strong_eval
MaxOperators == 2
\* lines of a program file
MaxLines == 3
\* cells made in SpecCells
MaxCells == 3

(***************************************************************************)
(* Program constants                                                       *)
(***************************************************************************)
REGISTER_COUNT == 8
LDI == 1
LDR == 5
STR == 5
ADD == 2
SUB == 2
MUL == 10

None == <<>>
Some(x) == <<x>>
Unwrap(o) == o[1]
Ok(x) == <<"Ok", x>>
Err(e) == <<"Err", e>>
IsOk(r) == r[1] = "Ok"
IsErr(r) == r[1] = "Err"

(***************************************************************************)
(* Expressions (expr.rs): immutable trees                                  *)
(***************************************************************************)
Const(c) == <<"Const", c>>
SymbolicVariable(s) == <<"SymbolicVariable", s>>
ExprAdd(lhs, rhs) == <<"Add", lhs, rhs>>
ExprSub(lhs, rhs) == <<"Sub", lhs, rhs>>
ExprMul(lhs, rhs) == <<"Mul", lhs, rhs>>

(***************************************************************************)
(* u32 and String.  The checker's integers stop below 2^31, so a u32 is    *)
(* held as <<high, low>>, two 16-bit limbs, and its arithmetic is done on  *)
(* the limbs; the payload of Expr::Const is a natural number below 2^31    *)
(* and is widened by U32.  A String is the sequence of its characters.     *)
(***************************************************************************)
Limb == 65536
U32(n) == <<n \div Limb, n % Limb>>
U32_MAX == <<Limb - 1, Limb - 1>>

wrapping_add(a, b) ==
    LET low == a[2] + b[2]
    IN <<(a[1] + b[1] + low \div Limb) % Limb, low % Limb>>

\* mutant: the difference stops at 0 instead of wrapping
saturating_sub(a, b) ==
    IF a[1] < b[1] \/ (a[1] = b[1] /\ a[2] < b[2])
    THEN <<0, 0>>
    ELSE LET low == a[2] - b[2]
             borrow == IF low < 0 THEN 1 ELSE 0
         IN <<(a[1] - b[1] - borrow + Limb) % Limb, (low + Limb) % Limb>>

wrapping_sub(a, b) ==
    LET low == a[2] - b[2]
        borrow == IF low < 0 THEN 1 ELSE 0
    IN <<(a[1] - b[1] - borrow + Limb) % Limb, (low + Limb) % Limb>>

\* the 32-bit product of two limbs, as <<high, low>>, computed on bytes
LimbProduct(x, y) ==
    LET x1 == x \div 256
        x0 == x % 256
        y1 == y \div 256
        y0 == y % 256
        mid == (x1 * y0 + x0 * y1) * 256 + x0 * y0
    IN <<(x1 * y1 + mid \div Limb) % Limb, mid % Limb>>

wrapping_mul(a, b) ==
    LET low == LimbProduct(a[2], b[2])
        cross == (LimbProduct(a[1], b[2])[2] + LimbProduct(a[2], b[1])[2]) % Limb
    IN <<(low[1] + cross) % Limb, low[2]>>

\* write!(f, "{}", constant) for a u32: its decimal digits
RECURSIVE U32ToString(_)
U32ToString(u) ==
    IF u[1] = 0 /\ u[2] < 10
    THEN <<ToString(u[2])>>
    ELSE LET t == (u[1] % 10) * Limb + u[2]
         IN U32ToString(<<u[1] \div 10, t \div 10>>) \o <<ToString(t % 10)>>

\* impl Display for Expr
RECURSIVE ExprToString(_)
ExprToString(e) ==
    CASE e[1] = "Const" -> U32ToString(U32(e[2]))
      [] e[1] = "SymbolicVariable" -> <<e[2]>>
      [] e[1] = "Add" ->
            <<"(">> \o ExprToString(e[2]) \o <<" ", "+", " ">> \o ExprToString(e[3]) \o <<")">>
      [] e[1] = "Sub" ->
            <<"(">> \o ExprToString(e[2]) \o <<" ", "-", " ">> \o ExprToString(e[3]) \o <<")">>
      [] e[1] = "Mul" ->
            <<"(">> \o ExprToString(e[2]) \o <<" ", "*", " ">> \o ExprToString(e[3]) \o <<")">>

\* EvaluatedExprKind and EvaluatedExpr
Numeric(constant) == <<"Numeric", constant>>
Value(value) == <<"Value", value>>
EvaluatedExpr(kind, precedence) == [kind |-> kind, precedence |-> precedence]
IsNumeric(x) == x.kind[1] = "Numeric"

\* impl Display for EvaluatedExpr
EvaluatedToString(x) ==
    IF IsNumeric(x) THEN U32ToString(x.kind[2]) ELSE x.kind[2]

\* mutant: a sum is always rendered, never folded
EvaluatedAddUnfolded(self, rhs) ==
    EvaluatedExpr(
        Value(EvaluatedToString(self) \o <<" ", "+", " ">> \o EvaluatedToString(rhs)),
        "Add")

\* impl Add for EvaluatedExpr
EvaluatedAdd(self, rhs) ==
    IF IsNumeric(self) /\ IsNumeric(rhs)
    THEN EvaluatedExpr(Numeric(wrapping_add(self.kind[2], rhs.kind[2])),
                       "NumericOrSymbolicVariable")
    ELSE EvaluatedExpr(
             Value(EvaluatedToString(self) \o <<" ", "+", " ">> \o EvaluatedToString(rhs)),
             "Add")

\* mutant: the right operand of a difference is never put in parentheses
EvaluatedSubBare(self, rhs) ==
    IF IsNumeric(self) /\ IsNumeric(rhs)
    THEN EvaluatedExpr(Numeric(wrapping_sub(self.kind[2], rhs.kind[2])),
                       "NumericOrSymbolicVariable")
    ELSE EvaluatedExpr(
             Value(EvaluatedToString(self) \o <<" ", "-", " ">> \o EvaluatedToString(rhs)),
             "Sub")

\* impl Sub for EvaluatedExpr
EvaluatedSub(self, rhs) ==
    IF IsNumeric(self) /\ IsNumeric(rhs)
    THEN EvaluatedExpr(Numeric(wrapping_sub(self.kind[2], rhs.kind[2])),
                       "NumericOrSymbolicVariable")
    ELSE IF rhs.precedence \in {"Add", "Sub"}
    THEN EvaluatedExpr(
             Value(EvaluatedToString(self) \o <<" ", "-", " ", "(">>
                   \o EvaluatedToString(rhs) \o <<")">>),
             "Sub")
    ELSE EvaluatedExpr(
             Value(EvaluatedToString(self) \o <<" ", "-", " ">> \o EvaluatedToString(rhs)),
             "Sub")

\* mutant: the operand of a product is never put in parentheses
FactorBare(x) == EvaluatedToString(x)

\* the operand of a product, in parentheses when it is a sum or a difference
Factor(x) ==
    IF x.precedence \in {"Add", "Sub"}
    THEN <<"(">> \o EvaluatedToString(x) \o <<")">>
    ELSE EvaluatedToString(x)

\* impl Mul for EvaluatedExpr
EvaluatedMul(self, rhs) ==
    IF IsNumeric(self) /\ IsNumeric(rhs)
    THEN EvaluatedExpr(Numeric(wrapping_mul(self.kind[2], rhs.kind[2])),
                       "NumericOrSymbolicVariable")
    ELSE EvaluatedExpr(Value(Factor(self) \o <<" ", "*", " ">> \o Factor(rhs)), "Mul")

\* impl From<u32> and From<&str> for EvaluatedExpr
FromU32(value) == EvaluatedExpr(Numeric(value), "NumericOrSymbolicVariable")
FromStr(value) == EvaluatedExpr(Value(value), "NumericOrSymbolicVariable")

\* impl From<&RcExpr> for EvaluatedExpr
RECURSIVE FromExpr(_)
FromExpr(e) ==
    CASE e[1] = "Const" -> EvaluatedExpr(Numeric(U32(e[2])), "NumericOrSymbolicVariable")
      [] e[1] = "SymbolicVariable" ->
            EvaluatedExpr(Value(<<e[2]>>), "NumericOrSymbolicVariable")
      [] e[1] = "Add" -> EvaluatedAdd(FromExpr(e[2]), FromExpr(e[3]))
      [] e[1] = "Sub" -> EvaluatedSub(FromExpr(e[2]), FromExpr(e[3]))
      [] e[1] = "Mul" -> EvaluatedMul(FromExpr(e[2]), FromExpr(e[3]))

\* ExprWrapper::weak_eval and ExprWrapper::strong_eval
weak_eval(e) == ExprToString(e)
strong_eval(e) == EvaluatedToString(FromExpr(e))

(***************************************************************************)
(* The ExprWrapper of pem/mod.rs: Rc<RefCell<Expr>> cells, kept in a store *)
(* and named by their index; the operands of a cell are earlier cells      *)
(***************************************************************************)
\* Expr::Value and Expr::Add, Sub, Mul of two cells
CellValue(value) == <<"Value", value>>
CellNode(kind, src1, src2) == <<kind, src1, src2>>

\* mutant: the string is kept without its outer parentheses
MemoisedBare(value) ==
    IF Head(value) = "(" THEN CellValue(SubSeq(value, 2, Len(value) - 1))
    ELSE CellValue(value)

\* *expr.borrow_mut() = Expr::Value(value.clone())
Memoised(value) == CellValue(value)

\* ExprWrapper::eval_expr: the string and the store after the call
RECURSIVE eval_expr(_, _)
eval_expr(store, h) ==
    LET e == store[h]
        r == CASE e[1] = "Const" -> <<U32ToString(U32(e[2])), store>>
               [] e[1] = "Value" -> <<e[2], store>>
               [] e[1] = "Add" ->
                     LET a == eval_expr(store, e[3])
                         b == eval_expr(a[2], e[2])
                     IN <<(<<"(">> \o a[1] \o <<" ", "+", " ">> \o b[1] \o <<")">>), b[2]>>
               [] e[1] = "Sub" ->
                     LET a == eval_expr(store, e[2])
                         b == eval_expr(a[2], e[3])
                     IN <<(<<"(">> \o a[1] \o <<" ", "-", " ">> \o b[1] \o <<")">>), b[2]>>
               [] e[1] = "Mul" ->
                     LET a == eval_expr(store, e[2])
                         b == eval_expr(a[2], e[3])
                     IN <<(<<"(">> \o a[1] \o <<" ", "*", " ">> \o b[1] \o <<")">>), b[2]>>
    IN <<r[1], [r[2] EXCEPT ![h] = Memoised(r[1])]>>

(***************************************************************************)
(* OperationOutput and InflightOperation (inflight_operation.rs)           *)
(***************************************************************************)
WriteToRegister(dst, value) == [kind |-> "WriteToRegister", id |-> dst, value |-> value]
WriteToMemory(addr, value) == [kind |-> "WriteToMemory", id |-> addr, value |-> value]

IntCmp(a, b) == IF a < b THEN "Less" ELSE IF a = b THEN "Equal" ELSE "Greater"
Reverse(o) == IF o = "Less" THEN "Greater" ELSE IF o = "Greater" THEN "Less" ELSE "Equal"

\* impl Ord for OperationOutput
OutputCmp(a, b) ==
    IF a.kind = "WriteToRegister" /\ b.kind = "WriteToRegister" THEN IntCmp(a.id, b.id)
    ELSE IF a.kind = "WriteToMemory" /\ b.kind = "WriteToMemory" THEN IntCmp(a.id, b.id)
    ELSE IF a.kind = "WriteToRegister" /\ b.kind = "WriteToMemory" THEN "Less"
    ELSE "Greater"

\* mutant: equality derived over all fields, the value included
OutputEqDerived(a, b) == a = b

\* impl PartialEq for OperationOutput
\* mutant: the destination ids are compared whatever the kinds
OutputEqAcrossKinds(a, b) == a.id = b.id

OutputEq(a, b) ==
    IF a.kind = "WriteToRegister" /\ b.kind = "WriteToRegister" THEN a.id = b.id
    ELSE IF a.kind = "WriteToMemory" /\ b.kind = "WriteToMemory" THEN a.id = b.id
    ELSE FALSE

\* mutant: the whole comparison reversed, not only complete_by
OpCmpAscending(a, b) ==
    LET ordering == IntCmp(a.complete_by, b.complete_by) IN
    IF ordering = "Equal"
    THEN Reverse(OutputCmp(a.output, b.output))
    ELSE Reverse(ordering)

\* impl Ord for InflightOperation
OpCmp(a, b) ==
    LET ordering == IntCmp(a.complete_by, b.complete_by) IN
    IF ordering = "Equal" THEN OutputCmp(a.output, b.output) ELSE Reverse(ordering)

\* impl PartialOrd for InflightOperation: a <= b
OpLe(a, b) == OpCmp(a, b) # "Greater"

\* impl PartialEq for InflightOperation
\* mutant: equality as a derive would give it, on every field
OpEqAllFields(a, b) == a = b

OpEq(a, b) == a.complete_by = b.complete_by /\ OutputEq(a.output, b.output)

\* mutant: the constant is due on the cycle of its issue
from_ldi_immediate(cycle, dst, constant) ==
    [output |-> WriteToRegister(dst, Const(constant)),
     complete_by |-> cycle, started_at |-> cycle]

from_ldi(cycle, dst, constant) ==
    [output |-> WriteToRegister(dst, Const(constant)),
     complete_by |-> cycle + LDI, started_at |-> cycle]

from_ldr(cycle, dst, addr_value) ==
    [output |-> WriteToRegister(dst, addr_value),
     complete_by |-> cycle + LDR, started_at |-> cycle]

\* mutant: the store is due on cycle STR whatever the cycle of its issue
from_str_absolute(cycle, src_value, addr) ==
    [output |-> WriteToMemory(addr, src_value),
     complete_by |-> STR, started_at |-> cycle]

from_str(cycle, src_value, addr) ==
    [output |-> WriteToMemory(addr, src_value),
     complete_by |-> cycle + STR, started_at |-> cycle]

\* mutant: the sum is built with src1 on the left
from_add_in_order(cycle, dst, src1_value, src2_value) ==
    [output |-> WriteToRegister(dst, ExprAdd(src1_value, src2_value)),
     complete_by |-> cycle + ADD, started_at |-> cycle]

from_add(cycle, dst, src1_value, src2_value) ==
    [output |-> WriteToRegister(dst, ExprAdd(src2_value, src1_value)),
     complete_by |-> cycle + ADD, started_at |-> cycle]

\* mutant: sub completes one cycle after add
from_sub_late(cycle, dst, src1_value, src2_value) ==
    [output |-> WriteToRegister(dst, ExprSub(src1_value, src2_value)),
     complete_by |-> cycle + SUB + 1, started_at |-> cycle]

from_sub(cycle, dst, src1_value, src2_value) ==
    [output |-> WriteToRegister(dst, ExprSub(src1_value, src2_value)),
     complete_by |-> cycle + SUB, started_at |-> cycle]

\* mutant: mul completes with the latency of add
from_mul_short(cycle, dst, src1_value, src2_value) ==
    [output |-> WriteToRegister(dst, ExprMul(src1_value, src2_value)),
     complete_by |-> cycle + ADD, started_at |-> cycle]

from_mul(cycle, dst, src1_value, src2_value) ==
    [output |-> WriteToRegister(dst, ExprMul(src1_value, src2_value)),
     complete_by |-> cycle + MUL, started_at |-> cycle]

(***************************************************************************)
(* The pending heap: BinaryHeap<InflightOperation> (machine.rs:25), a      *)
(* max-heap over OpCmp stored in a vector; positions are 0-based as in     *)
(* the library, At/Put translate to the 1-based sequence.                  *)
(***************************************************************************)
At(data, pos) == data[pos + 1]
Put(data, pos, elt) == [data EXCEPT ![pos + 1] = elt]

RECURSIVE SiftUpHole(_, _, _, _)
SiftUpHole(data, start, pos, elt) ==
    IF pos > start
    THEN LET parent == (pos - 1) \div 2 IN
         IF OpLe(elt, At(data, parent))
         THEN Put(data, pos, elt)
         ELSE SiftUpHole(Put(data, pos, At(data, parent)), start, parent, elt)
    ELSE Put(data, pos, elt)

sift_up(data, start, pos) == SiftUpHole(data, start, pos, At(data, pos))

RECURSIVE SiftDownHole(_, _, _, _)
\* returns <<data, hole position>> once the hole has reached the bottom
SiftDownHole(data, pos, elt, end) ==
    LET child == 2 * pos + 1 IN
    IF end >= 2 /\ child <= end - 2
    THEN LET c == IF OpLe(At(data, child), At(data, child + 1)) THEN child + 1 ELSE child
         IN SiftDownHole(Put(data, pos, At(data, c)), c, elt, end)
    ELSE IF child = end - 1
         THEN <<Put(Put(data, pos, At(data, child)), child, elt), child>>
         ELSE <<Put(data, pos, elt), pos>>

sift_down_to_bottom(data, pos) ==
    LET r == SiftDownHole(data, pos, At(data, pos), Len(data))
    IN sift_up(r[1], pos, r[2])

HeapPush(data, item) == sift_up(Append(data, item), 0, Len(data))

\* returns <<popped item, remaining data>>; data is not empty
HeapPop(data) ==
    LET item == data[Len(data)]
        rest == SubSeq(data, 1, Len(data) - 1)
    IN IF rest = <<>>
       THEN <<item, rest>>
       ELSE <<rest[1], sift_down_to_bottom(Put(rest, 0, item), 0)>>

HeapPeek(data) == IF data = <<>> THEN None ELSE Some(data[1])

(***************************************************************************)
(* Machine (machine.rs).  A method taking &mut self is an operator from    *)
(* the machine record to the machine record after the call and the value   *)
(* returned.  The field issued is history: it is not read by the machine.  *)
(***************************************************************************)
Self ==
    [regs |-> regs, mem |-> mem, pc |-> pc,
     pending_operations |-> pending_operations,
     allow_data_race |-> allow_data_race, issued |-> issued]

Terminated == <<"Terminated">>
InvalidRegister(reg, at) == <<"InvalidRegister", reg, at>>
UninitializedRegister(reg, at) == <<"UninitializedRegister", reg, at>>
UninitializedMemory(addr, at) == <<"UninitializedMemory", addr, at>>
RegisterDataRace(reg, at, inst1, inst2) == <<"RegisterDataRace", reg, at, inst1, inst2>>
MemoryDataRace(addr, at, inst1, inst2) == <<"MemoryDataRace", addr, at, inst1, inst2>>
\* assert!(complete_by > self.pc) failing
Panic == <<"Panic">>

\* mutant: the bound is compared with > instead of >=
validated_register_inclusive(self, reg) ==
    IF reg > REGISTER_COUNT
    THEN Err(InvalidRegister(reg, self.pc))
    ELSE Ok(reg)

validated_register(self, reg) ==
    IF reg >= REGISTER_COUNT
    THEN Err(InvalidRegister(reg, self.pc))
    ELSE Ok(reg)

\* mutant: the missing register is reported with the error of the empty one
get_register_value_as_empty(self, reg) ==
    IF reg \notin DOMAIN self.regs \/ self.regs[reg] = None
    THEN Err(UninitializedRegister(reg, self.pc))
    ELSE Ok(Unwrap(self.regs[reg]))

\* mutant: the empty register is reported with the error of the missing one
get_register_value_as_invalid(self, reg) ==
    IF reg \notin DOMAIN self.regs \/ self.regs[reg] = None
    THEN Err(InvalidRegister(reg, self.pc))
    ELSE Ok(Unwrap(self.regs[reg]))

get_register_value(self, reg) ==
    IF reg \notin DOMAIN self.regs
    THEN Err(InvalidRegister(reg, self.pc))
    ELSE IF self.regs[reg] = None
         THEN Err(UninitializedRegister(reg, self.pc))
         ELSE Ok(Unwrap(self.regs[reg]))

get_address_value(self, addr) ==
    IF addr \notin DOMAIN self.mem
    THEN Err(UninitializedMemory(addr, self.pc))
    ELSE Ok(self.mem[addr])

\* self.pending_operations.push(op), with the history entry of the push
Push(self, op, opcode, operands) ==
    LET uid == Len(self.issued) + 1
        entry == [uid |-> uid, opcode |-> opcode, operands |-> operands,
                  op |-> op, regs |-> self.regs, mem |-> self.mem,
                  pc |-> self.pc, call |-> calls, ip |-> ip]
    IN [self EXCEPT
          !.pending_operations =
              HeapPush(@, [output |-> op.output, complete_by |-> op.complete_by,
                           started_at |-> op.started_at, uid |-> uid]),
          !.issued = Append(@, entry)]

\* the state of begin_execution between two slots
Cont(self) == [self |-> self, err |-> None]
Fail(s, e) == [s EXCEPT !.err = Some(e)]

\* mutant: ldi also writes its register at once, so later slots see it
IssueLdiForward(s, instruction) ==
    IF s.err # None \/ instruction.ldi = None THEN s
    ELSE LET a == Unwrap(instruction.ldi)
             dst == validated_register(s.self, a[1])
         IN IF IsErr(dst) THEN Fail(s, dst[2])
            ELSE Cont([Push(s.self, from_ldi(s.self.pc, dst[2], a[2]), "ldi", a)
                         EXCEPT !.regs[dst[2]] = Some(Const(a[2]))])

IssueLdi(s, instruction) ==
    IF s.err # None \/ instruction.ldi = None THEN s
    ELSE LET a == Unwrap(instruction.ldi)
             dst == validated_register(s.self, a[1])
         IN IF IsErr(dst) THEN Fail(s, dst[2])
            ELSE Cont(Push(s.self, from_ldi(s.self.pc, dst[2], a[2]), "ldi", a))

IssueLdr(s, instruction) ==
    IF s.err # None \/ instruction.ldr = None THEN s
    ELSE LET a == Unwrap(instruction.ldr)
             dst == validated_register(s.self, a[1])
             v == get_address_value(s.self, a[2])
         IN IF IsErr(dst) THEN Fail(s, dst[2])
            ELSE IF IsErr(v) THEN Fail(s, v[2])
            ELSE Cont(Push(s.self, from_ldr(s.self.pc, dst[2], v[2]), "ldr", a))

IssueStr(s, instruction) ==
    IF s.err # None \/ instruction.str = None THEN s
    ELSE LET a == Unwrap(instruction.str)
             v == get_register_value(s.self, a[1])
         IN IF IsErr(v) THEN Fail(s, v[2])
            ELSE Cont(Push(s.self, from_str(s.self.pc, v[2], a[2]), "str", a))

\* mutant: the sources of add are read before its destination is validated
IssueAddSourcesFirst(s, instruction) ==
    IF s.err # None \/ instruction.add = None THEN s
    ELSE LET a == Unwrap(instruction.add)
             dst == validated_register(s.self, a[1])
             v1 == get_register_value(s.self, a[2])
             v2 == get_register_value(s.self, a[3])
         IN IF IsErr(v1) THEN Fail(s, v1[2])
            ELSE IF IsErr(v2) THEN Fail(s, v2[2])
            ELSE IF IsErr(dst) THEN Fail(s, dst[2])
            ELSE Cont(Push(s.self, from_add(s.self.pc, dst[2], v1[2], v2[2]), "add", a))

IssueAdd(s, instruction) ==
    IF s.err # None \/ instruction.add = None THEN s
    ELSE LET a == Unwrap(instruction.add)
             dst == validated_register(s.self, a[1])
             v1 == get_register_value(s.self, a[2])
             v2 == get_register_value(s.self, a[3])
         IN IF IsErr(dst) THEN Fail(s, dst[2])
            ELSE IF IsErr(v1) THEN Fail(s, v1[2])
            ELSE IF IsErr(v2) THEN Fail(s, v2[2])
            ELSE Cont(Push(s.self, from_add(s.self.pc, dst[2], v1[2], v2[2]), "add", a))

IssueSub(s, instruction) ==
    IF s.err # None \/ instruction.sub = None THEN s
    ELSE LET a == Unwrap(instruction.sub)
             dst == validated_register(s.self, a[1])
             v1 == get_register_value(s.self, a[2])
             v2 == get_register_value(s.self, a[3])
         IN IF IsErr(dst) THEN Fail(s, dst[2])
            ELSE IF IsErr(v1) THEN Fail(s, v1[2])
            ELSE IF IsErr(v2) THEN Fail(s, v2[2])
            ELSE Cont(Push(s.self, from_sub(s.self.pc, dst[2], v1[2], v2[2]), "sub", a))

IssueMul(s, instruction) ==
    IF s.err # None \/ instruction.mul = None THEN s
    ELSE LET a == Unwrap(instruction.mul)
             dst == validated_register(s.self, a[1])
             v1 == get_register_value(s.self, a[2])
             v2 == get_register_value(s.self, a[3])
         IN IF IsErr(dst) THEN Fail(s, dst[2])
            ELSE IF IsErr(v1) THEN Fail(s, v1[2])
            ELSE IF IsErr(v2) THEN Fail(s, v2[2])
            ELSE Cont(Push(s.self, from_mul(s.self.pc, dst[2], v1[2], v2[2]), "mul", a))

\* returns [self |-> the machine after the call, err |-> None or Some(error)]
begin_execution(self, instruction) ==
    IssueMul(IssueSub(IssueAdd(IssueStr(IssueLdr(IssueLdi(
        Cont(self), instruction), instruction), instruction), instruction),
        instruction), instruction)

\* mutant: a str reads its source register when it retires
RetireLate(self, next) ==
    LET output == next.output
        e == self.issued[next.uid]
    IN IF output.kind = "WriteToRegister"
       THEN [self EXCEPT !.regs[output.id] = Some(output.value)]
       ELSE [self EXCEPT !.mem =
               [a \in DOMAIN self.mem \cup {output.id} |->
                   IF a = output.id THEN Unwrap(self.regs[e.operands[1]])
                   ELSE self.mem[a]]]

\* mutant: a memory write keeps no other address
RetireAlone(self, next) ==
    LET output == next.output IN
    IF output.kind = "WriteToRegister"
    THEN [self EXCEPT !.regs[output.id] = Some(output.value)]
    ELSE [self EXCEPT !.mem = [a \in {output.id} |-> output.value]]

\* mutant: an add reads its source registers when it retires
RetireLateSources(self, next) ==
    LET output == next.output
        e == self.issued[next.uid]
    IN IF output.kind = "WriteToRegister"
       THEN [self EXCEPT !.regs[output.id] =
               IF e.opcode = "add" /\ self.regs[e.operands[2]] # None
                                  /\ self.regs[e.operands[3]] # None
               THEN Some(ExprAdd(Unwrap(self.regs[e.operands[3]]),
                                 Unwrap(self.regs[e.operands[2]])))
               ELSE Some(output.value)]
       ELSE [self EXCEPT !.mem =
               [a \in DOMAIN self.mem \cup {output.id} |->
                   IF a = output.id THEN output.value ELSE self.mem[a]]]

\* the write of one retired operation (machine.rs:293-312)
Retire(self, next) ==
    LET output == next.output IN
    IF output.kind = "WriteToRegister"
    THEN [self EXCEPT !.regs[output.id] = Some(output.value)]
    ELSE [self EXCEPT !.mem =
            [a \in DOMAIN self.mem \cup {output.id} |->
                IF a = output.id THEN output.value ELSE self.mem[a]]]

\* mutant: inst1 and inst2 exchanged
RaceErrorSwapped(self, prevOp, next) ==
    IF next.output.kind = "WriteToRegister"
    THEN RegisterDataRace(next.output.id, self.pc, next.started_at, prevOp.started_at)
    ELSE MemoryDataRace(next.output.id, self.pc, next.started_at, prevOp.started_at)

\* the error built at machine.rs:272-285
RaceError(self, prevOp, next) ==
    IF next.output.kind = "WriteToRegister"
    THEN RegisterDataRace(next.output.id, self.pc, prevOp.started_at, next.started_at)
    ELSE MemoryDataRace(next.output.id, self.pc, prevOp.started_at, next.started_at)

RECURSIVE EndCycleLoop(_, _, _)
\* the while loop of end_cycle; prev is the Option of the operation popped
\* before, done the operations popped so far
EndCycleLoop(self, prev, done) ==
    IF HeapPeek(self.pending_operations) = None
    THEN [self |-> self, err |-> None, popped |-> done]
    ELSE LET complete_by == Unwrap(HeapPeek(self.pending_operations)).complete_by IN
         IF ~(complete_by > self.pc)
         THEN [self |-> self, err |-> Some(Panic), popped |-> done]
         ELSE IF complete_by > self.pc + 1
         THEN [self |-> self, err |-> None, popped |-> done]
         ELSE LET p == HeapPop(self.pending_operations)
                  next == p[1]
                  rest == [self EXCEPT !.pending_operations = p[2]]
                  race == prev # None /\ OutputEq(Unwrap(prev).output, next.output)
              IN IF race /\ ~self.allow_data_race
                 THEN [self |-> rest,
                       err |-> Some(RaceError(self, Unwrap(prev), next)),
                       popped |-> Append(done, next)]
                 ELSE \* the next iteration, on the machine after the write; the
                      \* quantified a makes the write a value computed once
                      CHOOSE r \in {EndCycleLoop(a[1], a[2], a[3]) :
                                    a \in {<<Retire(rest, next), Some(next),
                                             Append(done, next)>>}} : TRUE

\* mutant: the clock is never advanced
end_cycle_no_tick(self) == EndCycleLoop(self, None, <<>>)

\* mutant: prev is not reset, it is the operation popped last by the
\* cycle before
end_cycle_stale_prev(self) ==
    LET r == EndCycleLoop(self,
                 IF popped = <<>> THEN None ELSE Some(popped[Len(popped)]), <<>>)
    IN IF r.err # None THEN r
       ELSE [r EXCEPT !.self.pc = @ + 1]

\* mutant: the clock only advances on a cycle that retired something
end_cycle_idle_free(self) ==
    LET r == EndCycleLoop(self, None, <<>>)
    IN IF r.err # None \/ r.popped = <<>> THEN r
       ELSE [r EXCEPT !.self.pc = @ + 1]

\* mutant: the race error is returned whatever allow_data_race says
end_cycle_strict(self) ==
    LET r == EndCycleLoop([self EXCEPT !.allow_data_race = FALSE], None, <<>>)
        back == [r EXCEPT !.self.allow_data_race = self.allow_data_race]
    IN IF back.err # None THEN back
       ELSE [back EXCEPT !.self.pc = @ + 1]

\* mutant: the clock advances also when the cycle fails
end_cycle_tick_always(self) ==
    LET r == EndCycleLoop(self, None, <<>>)
    IN [r EXCEPT !.self.pc = @ + 1]

\* returns the machine after the call, the error if any, and the operations
\* popped in pop order
end_cycle(self) ==
    LET r == EndCycleLoop(self, None, <<>>)
    IN IF r.err # None THEN r
       ELSE [r EXCEPT !.self.pc = @ + 1]

(***************************************************************************)
(* Instructions (instruction.rs): six optional slots                       *)
(***************************************************************************)
\* the operands the model draws: registers 0 and 1 and the first invalid
\* register id; address 0 is initialised, address 1 is not
LdiOperands == {<<0, 1>>, <<0, 3>>, <<1, 3>>, <<REGISTER_COUNT, 1>>}
LdrOperands == {<<1, 0>>, <<1, 1>>, <<REGISTER_COUNT, 0>>}
StrOperands == {<<0, 0>>, <<0, 1>>, <<REGISTER_COUNT, 0>>}
AddOperands ==
    {<<1, 0, 0>>, <<0, 0, 1>>, <<REGISTER_COUNT, 0, 0>>, <<0, 0, REGISTER_COUNT>>}
SubOperands == {<<0, 0, 1>>, <<0, REGISTER_COUNT, 0>>}
MulOperands == {<<0, 0, 1>>, <<REGISTER_COUNT, 0, 0>>}

ActiveSlots(i) ==
    Cardinality({k \in {"ldi", "ldr", "str", "add", "sub", "mul"} : i[k] # None})

\* Instruction::new() and the with_<op> builders
NewInstruction ==
    [ldi |-> None, ldr |-> None, str |-> None, add |-> None, sub |-> None, mul |-> None]
\* mutant: a slot that is set keeps its operands
with_ldi_once(i, dst, constant) ==
    IF i.ldi # None THEN i ELSE [i EXCEPT !.ldi = Some(<<dst, constant>>)]

with_ldi(i, dst, constant) == [i EXCEPT !.ldi = Some(<<dst, constant>>)]
with_ldr(i, dst, addr) == [i EXCEPT !.ldr = Some(<<dst, addr>>)]
with_str(i, src, addr) == [i EXCEPT !.str = Some(<<src, addr>>)]
with_add(i, dst, src1, src2) == [i EXCEPT !.add = Some(<<dst, src1, src2>>)]
with_sub(i, dst, src1, src2) == [i EXCEPT !.sub = Some(<<dst, src1, src2>>)]
with_mul(i, dst, src1, src2) == [i EXCEPT !.mul = Some(<<dst, src1, src2>>)]

\* the instructions with one active slot
SingleSlot ==
    {with_ldi(NewInstruction, o[1], o[2]) : o \in LdiOperands}
    \cup {with_ldr(NewInstruction, o[1], o[2]) : o \in LdrOperands}
    \cup {with_str(NewInstruction, o[1], o[2]) : o \in StrOperands}
    \cup {with_add(NewInstruction, o[1], o[2], o[3]) : o \in AddOperands}
    \cup {with_sub(NewInstruction, o[1], o[2], o[3]) : o \in SubOperands}
    \cup {with_mul(NewInstruction, o[1], o[2], o[3]) : o \in MulOperands}

\* the builders of b applied after those of a
Both(a, b) == [k \in DOMAIN a |-> IF b[k] # None THEN b[k] ELSE a[k]]

\* the instructions of Spec: the bubble and every instruction with one or
\* two active slots over the operands above
Instructions ==
    {Both(a, b) : a, b \in SingleSlot \cup {NewInstruction}}

\* the instructions of SpecRace: writers of register 1 with latencies 1, 2
\* and 5, what initialises their sources, and the bubble
RaceInstructions ==
    {NewInstruction,
     with_ldi(NewInstruction, 0, 1),
     with_ldr(with_ldi(NewInstruction, 0, 1), 1, 0),
     with_ldr(NewInstruction, 1, 0),
     with_add(NewInstruction, 1, 0, 0),
     with_sub(with_add(NewInstruction, 1, 0, 0), 1, 0, 0),
     with_ldi(NewInstruction, 1, 3)}

\* the instructions of SpecLive: the bubble and every instruction with one
\* active slot
LiveInstructions == SingleSlot \cup {NewInstruction}

\* the instructions of SpecRetry: an ldi and a str of register 0, alone and
\* with a later slot that fails at issue, and the bubble
RetryInstructions ==
    {NewInstruction,
     with_ldi(NewInstruction, 0, 1),
     with_ldr(with_ldi(NewInstruction, 0, 1), 1, 1),
     with_str(NewInstruction, 0, 0),
     with_add(with_str(NewInstruction, 0, 0), REGISTER_COUNT, 0, 0)}

(***************************************************************************)
(* parser.rs: read_program.  A line is a string, a sequence of characters; *)
(* the file is the sequence of lines that str::lines yields.               *)
(***************************************************************************)
\* str::split(' '): the pieces between single spaces, empty pieces included
RECURSIVE SplitFrom(_, _, _, _)
SplitFrom(line, pos, token, out) ==
    IF pos > Len(line) THEN Append(out, token)
    ELSE IF line[pos] = " " THEN SplitFrom(line, pos + 1, <<>>, Append(out, token))
    ELSE SplitFrom(line, pos + 1, Append(token, line[pos]), out)

Split(line) == SplitFrom(line, 1, <<>>, <<>>)

\* str::parse::<u32>: an optional '+', then one or more decimal digits, no
\* overflow; None stands for the Err
RECURSIVE ParseDigits(_, _, _)
ParseDigits(token, pos, acc) ==
    IF pos > Len(token) THEN Some(acc)
    ELSE IF token[pos] \notin {"0", "1", "2", "3", "4", "5", "6", "7", "8", "9"} THEN None
    ELSE LET d == CHOOSE n \in 0..9 : ToString(n) = token[pos] IN
         IF acc > 429496729 \/ (acc = 429496729 /\ d > 5) THEN None
         ELSE ParseDigits(token, pos + 1, acc * 10 + d)

ParseU32(token) ==
    LET digits == IF token # <<>> /\ token[1] = "+" THEN Tail(token) ELSE token IN
    IF digits = <<>> THEN None ELSE ParseDigits(digits, 1, 0)

\* the panics of read_program
InvalidNumber(num) == <<"Invalid register, constant or memory address", num>>
InvalidOperands(num) == <<"Invalid operands", num>>
InvalidOperation(num) == <<"Invalid operation", num>>
MissingSemicolon == <<"Missing semicolon at end of program">>

\* the locals of read_program; err is the panic, if any
Reader(prog, inst) == [program |-> prog, curr_inst |-> inst, err |-> None]

\* the builder of an operation applied to the parsed operands
WithOperation(inst, op, n) ==
    CASE op = <<"l", "d", "i">> -> with_ldi(inst, n[1], n[2])
      [] op = <<"l", "d", "r">> -> with_ldr(inst, n[1], n[2])
      [] op = <<"s", "t", "r">> -> with_str(inst, n[1], n[2])
      [] op = <<"a", "d", "d">> -> with_add(inst, n[1], n[2], n[3])
      [] op = <<"s", "u", "b">> -> with_sub(inst, n[1], n[2], n[3])
      [] op = <<"m", "u", "l">> -> with_mul(inst, n[1], n[2], n[3])

\* mutant: a ';' line pushes the instruction and goes on filling it
ReadLineCarrying(s, num, line) ==
    LET inst == IF s.curr_inst = None THEN NewInstruction ELSE Unwrap(s.curr_inst)
        split == Split(line)
        op == split[1]
        operands == Tail(split)
        arity == IF op \in {<<"l", "d", "i">>, <<"l", "d", "r">>, <<"s", "t", "r">>} THEN 2 ELSE 3
        numbers == [k \in 1..Len(operands) |-> ParseU32(operands[k])]
        started == [s EXCEPT !.curr_inst = Some(inst)]
    IN IF op \in {<<"l", "d", "i">>, <<"l", "d", "r">>, <<"s", "t", "r">>, <<"a", "d", "d">>, <<"s", "u", "b">>, <<"m", "u", "l">>}
       THEN IF Len(operands) # arity THEN Fail(started, InvalidOperands(num))
            ELSE IF \E k \in 1..arity : numbers[k] = None
                 THEN Fail(started, InvalidNumber(num))
            ELSE [started EXCEPT !.curr_inst =
                     Some(WithOperation(inst, op, [k \in 1..arity |-> Unwrap(numbers[k])]))]
       ELSE IF op = <<";">>
       THEN [started EXCEPT !.program = Append(s.program, inst)]
       ELSE IF op \in {<<"#">>, <<>>} THEN started
       ELSE Fail(started, InvalidOperation(num))

\* the body of the for loop, for line number num
ReadLine(s, num, line) ==
    LET inst == IF s.curr_inst = None THEN NewInstruction ELSE Unwrap(s.curr_inst)
        split == Split(line)
        op == split[1]
        operands == Tail(split)
        arity == IF op \in {<<"l", "d", "i">>, <<"l", "d", "r">>, <<"s", "t", "r">>} THEN 2 ELSE 3
        numbers == [k \in 1..Len(operands) |-> ParseU32(operands[k])]
        started == [s EXCEPT !.curr_inst = Some(inst)]
    IN IF op \in {<<"l", "d", "i">>, <<"l", "d", "r">>, <<"s", "t", "r">>, <<"a", "d", "d">>, <<"s", "u", "b">>, <<"m", "u", "l">>}
       THEN IF Len(operands) # arity THEN Fail(started, InvalidOperands(num))
            ELSE IF \E k \in 1..arity : numbers[k] = None
                 THEN Fail(started, InvalidNumber(num))
            ELSE [started EXCEPT !.curr_inst =
                     Some(WithOperation(inst, op, [k \in 1..arity |-> Unwrap(numbers[k])]))]
       ELSE IF op = <<";">>
       THEN [started EXCEPT !.program = Append(s.program, inst), !.curr_inst = None]
       ELSE IF op \in {<<"#">>, <<>>} THEN started
       ELSE Fail(started, InvalidOperation(num))

\* mutant: a pending instruction is committed at the end of the file
EndOfFileCommits(s) ==
    IF s.curr_inst # None THEN Ok(Append(s.program, Unwrap(s.curr_inst)))
    ELSE Ok(s.program)

\* after the loop: the check of lines 154-156 and the return
EndOfFile(s) ==
    IF s.curr_inst # None THEN Err(MissingSemicolon) ELSE Ok(s.program)

\* read_program on the lines of a file
RECURSIVE ReadFrom(_, _, _)
ReadFrom(s, lines, num) ==
    IF s.err # None THEN Err(Unwrap(s.err))
    ELSE IF num > Len(lines) THEN EndOfFile(s)
    ELSE ReadFrom(ReadLine(s, num, lines[num]), lines, num + 1)

read_program(lines) == ReadFrom(Reader(<<>>, None), lines, 1)

\* the lines of the files read
LdiLine == <<"l", "d", "i", " ", "0", " ", "1">>
LdiAgainLine == <<"l", "d", "i", " ", "2", " ", "3">>
AddLine == <<"a", "d", "d", " ", "1", " ", "0", " ", "0">>
CommitLine == <<";">>
CommentLine == <<"#", " ", "c">>
EmptyLine == <<>>
TightCommentLine == <<"#", "c">>
ShortLine == <<"l", "d", "i", " ", "0">>
BadNumberLine == <<"l", "d", "i", " ", "0", " ", "x">>

OperationLines == {LdiLine, LdiAgainLine, AddLine, ShortLine, BadNumberLine}
IgnoredLines == {CommentLine, EmptyLine, TightCommentLine}
Lines == OperationLines \cup IgnoredLines \cup {CommitLine}

Files == UNION {[1..n -> Lines] : n \in 0..MaxLines}

InitialMemory == [a \in {0} |-> SymbolicVariable("A")]

Snapshot == [regs |-> regs, mem |-> mem, pc |-> pc,
             pending_operations |-> pending_operations,
             allow_data_race |-> allow_data_race, phase |-> phase,
             result |-> result, nissued |-> Len(issued),
             nretired |-> Len(retired), instruction |-> None]

(***************************************************************************)
(* Machine::new and the steps of compute                                   *)
(***************************************************************************)
NewMachine ==
    /\ regs = [r \in 0..(REGISTER_COUNT - 1) |-> None]
    /\ mem = InitialMemory
    /\ pc = 0
    /\ pending_operations = <<>>
    /\ allow_data_race = FALSE
    /\ phase = "idle"
    /\ result = None
    /\ ip = 0
    /\ calls = 0
    /\ ninstr = 0
    /\ issued = <<>>
    /\ popped = <<>>
    /\ last = "new"
    /\ pre = None
    /\ retired = <<>>

\* no file is being read
NoFile ==
    /\ file = <<>>
    /\ lineno = 0
    /\ program = <<>>
    /\ curr_inst = None
    /\ outcome = None

\* no cell has been made
NoCells ==
    /\ cells = <<>>
    /\ built = <<>>
    /\ bound = None

Init ==
    /\ NewMachine
    /\ expr = None
    /\ weak = None
    /\ strong = None
    /\ NoFile
    /\ NoCells

\* the operations an end_cycle wrote: all it popped, but the last one when
\* it returned the race error before the write
Written(r) ==
    IF r.err # None /\ Unwrap(r.err) # Panic
    THEN SubSeq(r.popped, 1, Len(r.popped) - 1)
    ELSE r.popped

SetMachine(self) ==
    /\ regs' = self.regs
    /\ mem' = self.mem
    /\ pc' = self.pc
    /\ pending_operations' = self.pending_operations
    /\ allow_data_race' = self.allow_data_race
    /\ issued' = self.issued

\* Machine::allow_data_race
AllowDataRace(allow) ==
    /\ phase = "idle"
    /\ allow_data_race' = allow
    /\ last' = "allow_data_race"
    /\ pre' = Some(Snapshot)
    /\ UNCHANGED <<regs, mem, pc, pending_operations, phase, result, ip, calls,
                   ninstr, issued, popped, retired, evaluation, parsing, sharing>>

\* mutant: a terminated machine drops its pending operations
ComputeClearing(maxCalls) ==
    /\ phase = "idle"
    /\ calls < maxCalls
    /\ calls' = calls + 1
    /\ last' = "compute"
    /\ pre' = Some(Snapshot)
    /\ IF pc # 0
       THEN /\ result' = Some(Err(Terminated))
            /\ pending_operations' = <<>>
            /\ UNCHANGED <<phase, ip>>
       ELSE /\ result' = None
            /\ phase' = "issue"
            /\ ip' = 0
            /\ UNCHANGED pending_operations
    /\ UNCHANGED <<regs, mem, pc, allow_data_race, ninstr,
                   issued, popped, retired, evaluation, parsing, sharing>>

\* compute is entered: the guard of machine.rs:87-89
Compute(maxCalls) ==
    /\ phase = "idle"
    /\ calls < maxCalls
    /\ calls' = calls + 1
    /\ last' = "compute"
    /\ pre' = Some(Snapshot)
    /\ IF pc # 0
       THEN /\ result' = Some(Err(Terminated))
            /\ UNCHANGED <<phase, ip>>
       ELSE /\ result' = None
            /\ phase' = "issue"
            /\ ip' = 0
    /\ UNCHANGED <<regs, mem, pc, pending_operations, allow_data_race, ninstr,
                   issued, popped, retired, evaluation, parsing, sharing>>

\* one iteration of the for loop, first half: begin_execution(instruction)?
Issue(instruction, maxInstr, maxOps) ==
    /\ phase = "issue"
    /\ ninstr < maxInstr
    /\ Len(issued) + ActiveSlots(instruction) <= maxOps
    /\ LET r == begin_execution(Self, instruction) IN
         /\ SetMachine(r.self)
         /\ IF r.err # None
            THEN phase' = "idle" /\ result' = Some(Err(Unwrap(r.err)))
            ELSE phase' = "retire" /\ result' = result
    /\ ninstr' = ninstr + 1
    /\ last' = "begin_execution"
    /\ pre' = Some([Snapshot EXCEPT !.instruction = Some(instruction)])
    /\ UNCHANGED <<ip, calls, popped, retired, evaluation, parsing, sharing>>

\* one iteration of the for loop, second half: end_cycle()?
EndCycle ==
    /\ phase = "retire"
    /\ LET r == end_cycle(Self) IN
         /\ SetMachine(r.self)
         /\ popped' = r.popped
         /\ retired' = retired \o Written(r)
         /\ IF r.err # None
            THEN phase' = "idle" /\ result' = Some(Err(Unwrap(r.err))) /\ ip' = ip
            ELSE phase' = "issue" /\ result' = result /\ ip' = ip + 1
    /\ last' = "end_cycle"
    /\ pre' = Some(Snapshot)
    /\ UNCHANGED <<calls, ninstr, evaluation, parsing, sharing>>

\* the program is exhausted: one iteration of the while loop of machine.rs:97-99
Drain ==
    /\ phase \in {"issue", "drain"}
    /\ HeapPeek(pending_operations) # None
    /\ LET r == end_cycle(Self) IN
         /\ SetMachine(r.self)
         /\ popped' = r.popped
         /\ retired' = retired \o Written(r)
         /\ IF r.err # None
            THEN phase' = "idle" /\ result' = Some(Err(Unwrap(r.err)))
            ELSE phase' = "drain" /\ result' = result
    /\ last' = "drain"
    /\ pre' = Some(Snapshot)
    /\ UNCHANGED <<ip, calls, ninstr, evaluation, parsing, sharing>>

\* mutant: compute returns register 0 without the while loop that drains
\* the heap
ReturnWithoutDrain ==
    /\ phase \in {"issue", "drain"}
    /\ phase' = "idle"
    /\ result' = Some(get_register_value(Self, 0))
    /\ last' = "return"
    /\ pre' = Some(Snapshot)
    /\ UNCHANGED <<regs, mem, pc, pending_operations, allow_data_race, ip, calls,
                   ninstr, issued, popped, retired, evaluation, parsing, sharing>>

\* the heap is empty: compute returns get_register_value(Reg(0))
Return ==
    /\ phase \in {"issue", "drain"}
    /\ HeapPeek(pending_operations) = None
    /\ phase' = "idle"
    /\ result' = Some(get_register_value(Self, 0))
    /\ last' = "return"
    /\ pre' = Some(Snapshot)
    /\ UNCHANGED <<regs, mem, pc, pending_operations, allow_data_race, ip, calls,
                   ninstr, issued, popped, retired, evaluation, parsing, sharing>>

Next ==
    \/ \E allow \in BOOLEAN : AllowDataRace(allow)
    \/ Compute(MaxCalls)
    \/ \E instruction \in Instructions : Issue(instruction, MaxInstr, MaxOps)
    \/ EndCycle
    \/ Drain
    \/ Return

Spec == Init /\ [][Next]_vars

NextRace ==
    \/ \E allow \in BOOLEAN : AllowDataRace(allow)
    \/ Compute(MaxRaceCalls)
    \/ \E instruction \in RaceInstructions :
          Issue(instruction, MaxRaceInstr, MaxRaceOps)
    \/ EndCycle
    \/ Drain
    \/ Return

SpecRace == Init /\ [][NextRace]_vars

NextRetry ==
    \/ \E allow \in BOOLEAN : AllowDataRace(allow)
    \/ Compute(MaxRetryCalls)
    \/ \E instruction \in RetryInstructions :
          Issue(instruction, MaxRetryInstr, MaxRetryOps)
    \/ EndCycle
    \/ Drain
    \/ Return

SpecRetry == Init /\ [][NextRetry]_vars

NextLive ==
    \/ \E allow \in BOOLEAN : AllowDataRace(allow)
    \/ Compute(MaxLiveCalls)
    \/ \E instruction \in LiveInstructions :
          Issue(instruction, MaxLiveInstr, MaxLiveOps)
    \/ EndCycle
    \/ Drain
    \/ Return

\* compute is sequential code: once entered, its next step is taken; the
\* program is finite, so the for loop is left for the while loop
SpecLive ==
    /\ Init
    /\ [][NextLive]_vars
    /\ WF_vars(EndCycle)
    /\ WF_vars(Drain)
    /\ WF_vars(Return)

(***************************************************************************)
(* Expressions handed to weak_eval and strong_eval                         *)
(***************************************************************************)
Leaves ==
    {Const(1), Const(2), SymbolicVariable("A"), SymbolicVariable("B")}

\* the expressions with exactly k operators over the leaves
RECURSIVE ExprsWith(_)
ExprsWith(k) ==
    IF k = 0 THEN Leaves
    ELSE UNION {{ExprAdd(l, r), ExprSub(l, r), ExprMul(l, r)} :
                    <<l, r>> \in UNION {ExprsWith(i) \X ExprsWith(k - 1 - i) : i \in 0..(k - 1)}}

\* A * B - ((C + D) - (E * 12)), 9 * 10 - ((7 + 8) - (6 * 3)), and the
\* result of test_long_polynomial
SymbolicExample ==
    ExprSub(ExprMul(SymbolicVariable("A"), SymbolicVariable("B")),
            ExprSub(ExprAdd(SymbolicVariable("C"), SymbolicVariable("D")),
                    ExprMul(SymbolicVariable("E"), Const(12))))
NumericExample ==
    ExprSub(ExprMul(Const(9), Const(10)),
            ExprSub(ExprAdd(Const(7), Const(8)), ExprMul(Const(6), Const(3))))
LongPolynomial ==
    ExprAdd(ExprMul(ExprMul(ExprAdd(SymbolicVariable("A"), Const(1)),
                            ExprAdd(SymbolicVariable("B"), Const(2))),
                    ExprAdd(ExprSub(SymbolicVariable("C"), SymbolicVariable("D")),
                            Const(3))),
            ExprMul(ExprMul(Const(4), SymbolicVariable("C")), SymbolicVariable("D")))

Exprs ==
    UNION {ExprsWith(k) : k \in 0..MaxOperators}
    \cup {SymbolicExample, NumericExample, LongPolynomial}

InitExpr ==
    /\ NewMachine
    /\ expr \in {Some(e) : e \in Exprs}
    /\ weak = None
    /\ strong = None
    /\ NoFile
    /\ NoCells

WeakEval ==
    /\ expr # None
    /\ weak = None
    /\ weak' = Some(weak_eval(Unwrap(expr)))
    /\ UNCHANGED <<expr, strong, machine, parsing, sharing>>

StrongEval ==
    /\ expr # None
    /\ strong = None
    /\ strong' = Some(strong_eval(Unwrap(expr)))
    /\ UNCHANGED <<expr, weak, machine, parsing, sharing>>

NextExpr ==
    \/ WeakEval
    \/ StrongEval

SpecExpr == InitExpr /\ [][NextExpr]_vars

(***************************************************************************)
(* Handles of pem/mod.rs: cells are made from leaves and from earlier      *)
(* cells, rendered by eval, and bound to a register                        *)
(***************************************************************************)
CellLeaves == {Const(1), CellValue(<<"A">>)}

InitCells ==
    /\ NewMachine
    /\ expr = Some(SymbolicExample)
    /\ weak = None
    /\ strong = None
    /\ NoFile
    /\ NoCells

\* From<u32> and From<&str> for ExprWrapper
NewLeaf(leaf) ==
    /\ Len(cells) < MaxCells
    /\ cells' = Append(cells, leaf)
    /\ built' = Append(built, leaf)
    /\ UNCHANGED <<bound, machine, evaluation, parsing>>

\* Add, Sub and Mul for &ExprWrapper: a new cell sharing both operands
Combine(kind, lhs, rhs) ==
    /\ Len(cells) < MaxCells
    /\ cells' = Append(cells, CellNode(kind, lhs, rhs))
    /\ built' = Append(built, CellNode(kind, lhs, rhs))
    /\ UNCHANGED <<bound, machine, evaluation, parsing>>

\* ExprWrapper::eval
Eval(h) ==
    /\ cells' = eval_expr(cells, h)[2]
    /\ cells' # cells
    /\ UNCHANGED <<built, bound, machine, evaluation, parsing>>

\* self.regs[reg] = Some(value) of end_cycle: the register drops the handle
\* it held and holds another
Bind(h) ==
    /\ bound # Some(h)
    /\ bound' = Some(h)
    /\ UNCHANGED <<cells, built, machine, evaluation, parsing>>

NextCells ==
    \/ \E leaf \in CellLeaves : NewLeaf(leaf)
    \/ \E kind \in {"Add", "Sub", "Mul"}, lhs, rhs \in 1..Len(cells) : Combine(kind, lhs, rhs)
    \/ \E h \in 1..Len(cells) : Eval(h)
    \/ \E h \in 1..Len(cells) : Bind(h)
    \/ WeakEval
    \/ StrongEval

SpecCells == InitCells /\ [][NextCells]_vars

(***************************************************************************)
(* read_program on a file of at most MaxLines lines                        *)
(***************************************************************************)
InitParser ==
    /\ NewMachine
    /\ expr = None
    /\ weak = None
    /\ strong = None
    /\ file \in Files
    /\ lineno = 0
    /\ program = <<>>
    /\ curr_inst = None
    /\ outcome = None
    /\ NoCells

\* one iteration of the for loop of read_program
NextLine ==
    /\ outcome = None
    /\ lineno < Len(file)
    /\ LET s == ReadLine(Reader(program, curr_inst), lineno + 1, file[lineno + 1]) IN
         /\ program' = s.program
         /\ curr_inst' = s.curr_inst
         /\ outcome' = IF s.err # None THEN Some(Err(Unwrap(s.err))) ELSE None
    /\ lineno' = lineno + 1
    /\ UNCHANGED <<file, machine, evaluation, sharing>>

\* the lines are exhausted
Eof ==
    /\ outcome = None
    /\ lineno = Len(file)
    /\ outcome' = Some(EndOfFile(Reader(program, curr_inst)))
    /\ UNCHANGED <<file, lineno, program, curr_inst, machine, evaluation, sharing>>

NextParser ==
    \/ NextLine
    \/ Eof

SpecParser == InitParser /\ [][NextParser]_vars

(***************************************************************************)
(* Vocabulary of the properties                                            *)
(***************************************************************************)
\* the machine before the last step
PreState == Unwrap(pre)
\* the last step ran end_cycle
EndCycleStep == last \in {"end_cycle", "drain"}
\* the last step ran end_cycle and end_cycle returned an error
EndCycleFailed == EndCycleStep /\ phase = "idle"
IsError(r) == r # None /\ IsErr(Unwrap(r))
ErrorOf(r) == Unwrap(r)[2]
IsRace(r) == IsError(r) /\ ErrorOf(r)[1] \in {"RegisterDataRace", "MemoryDataRace"}
IsIssueError(r) ==
    IsError(r) /\ ErrorOf(r)[1] \in
        {"InvalidRegister", "UninitializedRegister", "UninitializedMemory"}
\* positions in the heap of s of the operations due at the end of cycle s.pc
Retiring(s) ==
    {i \in 1..Len(s.pending_operations) :
        s.pending_operations[i].complete_by = s.pc + 1}
SameDestination(a, b) == a.output.kind = b.output.kind /\ a.output.id = b.output.id
\* two operations due at the end of cycle s.pc write the same destination
Collision(s) ==
    \E i, j \in Retiring(s) :
        i # j /\ SameDestination(s.pending_operations[i], s.pending_operations[j])
\* the popped operations whose write was applied by the last end_cycle
Applied == IF EndCycleFailed THEN SubSeq(popped, 1, Len(popped) - 1) ELSE popped
\* the history entry of an operation
EntryOf(op) == issued[op.uid]
\* the value an operation must write, from the registers and memory its
\* history entry recorded when it was issued
IssueValue(e) ==
    CASE e.opcode = "ldi" -> <<"Const", e.operands[2]>>
      [] e.opcode = "ldr" -> e.mem[e.operands[2]]
      [] e.opcode = "str" -> Unwrap(e.regs[e.operands[1]])
      [] e.opcode = "add" ->
            <<"Add", Unwrap(e.regs[e.operands[3]]), Unwrap(e.regs[e.operands[2]])>>
      [] e.opcode = "sub" ->
            <<"Sub", Unwrap(e.regs[e.operands[2]]), Unwrap(e.regs[e.operands[3]])>>
      [] e.opcode = "mul" ->
            <<"Mul", Unwrap(e.regs[e.operands[2]]), Unwrap(e.regs[e.operands[3]])>>
LatencyOf(opcode) ==
    CASE opcode = "ldi" -> 1
      [] opcode = "ldr" -> 5
      [] opcode = "str" -> 5
      [] opcode = "add" -> 2
      [] opcode = "sub" -> 2
      [] opcode = "mul" -> 10
\* the history entries whose write to (kind, id) is due at cycle c or before
WritesBy(kind, id, c) ==
    {k \in 1..Len(issued) :
        /\ issued[k].op.output.kind = kind
        /\ issued[k].op.output.id = id
        /\ issued[k].op.complete_by <= c}
\* among them, those with the largest complete_by
Latest(S) ==
    {k \in S : \A j \in S : issued[j].op.complete_by <= issued[k].op.complete_by}

(***************************************************************************)
(* C1  Single-use machine: once a compute call has returned, whatever it   *)
(* returned, pc > 0, and every later compute call returns Terminated.      *)
(***************************************************************************)
C1_SingleUse ==
    /\ (phase = "idle" /\ calls >= 1) => pc > 0
    /\ (last = "compute" /\ calls >= 2) => result = Some(Err(Terminated))

(***************************************************************************)
(* C2  Race detection is complete: with allow_data_race false, an          *)
(* end_cycle that finds two or more operations due on its cycle with the   *)
(* same destination returns a data-race error for that cycle, and no       *)
(* end_cycle applies two writes to one destination.                        *)
(***************************************************************************)
C2_RaceDetectionComplete ==
    (EndCycleStep /\ ~PreState.allow_data_race) =>
        /\ Collision(PreState) =>
              /\ EndCycleFailed
              /\ IsRace(result)
              /\ ErrorOf(result)[3] = PreState.pc
        /\ \A i, j \in 1..Len(Applied) :
              i # j => ~SameDestination(Applied[i], Applied[j])

\* four operations due on one cycle write register 1 and the cycle ends
\* with a race error
C2_Witness ==
    /\ EndCycleFailed
    /\ ~PreState.allow_data_race
    /\ IsRace(result)
    /\ Cardinality({i \in Retiring(PreState) :
            /\ PreState.pending_operations[i].output.kind = "WriteToRegister"
            /\ PreState.pending_operations[i].output.id = 1}) = 4

(***************************************************************************)
(* C3  Race detection is sound: a data-race error is returned only when    *)
(* the two operations popped last have the same complete_by and the same   *)
(* destination; an end_cycle whose due operations have distinct            *)
(* destinations does not fail, whatever earlier cycles wrote.              *)
(***************************************************************************)
C3_RaceDetectionSound ==
    /\ IsRace(result) =>
          /\ Len(popped) >= 2
          /\ LET a == popped[Len(popped) - 1]
                 b == popped[Len(popped)]
             IN /\ a.complete_by = b.complete_by
                /\ a.complete_by = pc + 1
                /\ SameDestination(a, b)
                /\ a.uid # b.uid
    /\ (EndCycleStep /\ ~Collision(PreState)) => ~EndCycleFailed

\* an end_cycle overwrites a register written on an earlier cycle and
\* does not fail
C3_Witness ==
    /\ EndCycleStep
    /\ ~EndCycleFailed
    /\ ~allow_data_race
    /\ \E i \in 1..Len(popped) :
          /\ popped[i].output.kind = "WriteToRegister"
          /\ PreState.regs[popped[i].output.id] # None
          /\ regs[popped[i].output.id] = Some(popped[i].output.value)
          /\ regs[popped[i].output.id] # PreState.regs[popped[i].output.id]

(***************************************************************************)
(* C4  Retire order.  As claimed: an end_cycle pops exactly the operations *)
(* due on its cycle, register-writes before memory-writes and, within a    *)
(* kind, by ascending destination id.                                      *)
(***************************************************************************)
RetiresDueOperations ==
    /\ \A i \in 1..Len(popped) : popped[i].complete_by = PreState.pc + 1
    /\ ~EndCycleFailed =>
          \A i \in 1..Len(pending_operations) :
              pending_operations[i].complete_by > PreState.pc + 1

C4_RetireOrderAscending ==
    EndCycleStep =>
        /\ RetiresDueOperations
        /\ \A i, j \in 1..Len(popped) :
              i < j => OutputCmp(popped[i].output, popped[j].output) # "Greater"

\* C4 as amended: an end_cycle pops exactly the operations due on its
\* cycle (so operations retire by ascending complete_by), memory-writes
\* before register-writes and, within a kind, by descending destination id.
C4_RetireOrderDescending ==
    EndCycleStep =>
        /\ RetiresDueOperations
        /\ \A i, j \in 1..Len(popped) :
              i < j => OutputCmp(popped[i].output, popped[j].output) # "Less"

\* one end_cycle pops a memory-write and then a register-write while a
\* later operation stays pending
C4_Witness ==
    /\ EndCycleStep
    /\ Len(popped) >= 2
    /\ popped[1].output.kind = "WriteToMemory"
    /\ popped[2].output.kind = "WriteToRegister"

(***************************************************************************)
(* C5  Read visibility: when an instruction is about to be issued at cycle *)
(* pc, every register and address holds the value of the most recent       *)
(* write whose complete_by <= pc, and is as constructed if there is none.  *)
(***************************************************************************)
C5_ReadVisibility ==
    phase = "issue" =>
        /\ \A r \in DOMAIN regs :
              LET S == WritesBy("WriteToRegister", r, pc) IN
              IF S = {} THEN regs[r] = None
              ELSE \E k \in Latest(S) : regs[r] = Some(issued[k].op.output.value)
        /\ \A a \in {0, 1} :
              LET S == WritesBy("WriteToMemory", a, pc) IN
              IF S = {}
              THEN /\ a \in DOMAIN mem <=> a \in DOMAIN InitialMemory
                   /\ a \in DOMAIN mem => mem[a] = InitialMemory[a]
              ELSE /\ a \in DOMAIN mem
                   /\ \E k \in Latest(S) : mem[a] = issued[k].op.output.value

(***************************************************************************)
(* C6  Eager binding: the value an end_cycle writes for an operation is    *)
(* the one computed from the registers and memory of its issue cycle,      *)
(* whatever they hold at retirement.                                       *)
(***************************************************************************)
C6_EagerBinding ==
    EndCycleStep =>
        \A i \in 1..Len(Applied) :
            LET p == Applied[i]
                v == IssueValue(EntryOf(p))
            IN /\ p.output.value = v
               /\ (\A j \in (i + 1)..Len(Applied) : ~SameDestination(p, Applied[j])) =>
                     IF p.output.kind = "WriteToRegister"
                     THEN regs[p.output.id] = Some(v)
                     ELSE p.output.id \in DOMAIN mem /\ mem[p.output.id] = v

\* a str retires after its source register was overwritten and stores the
\* value the register held when the str was issued
C6_Witness ==
    /\ EndCycleStep
    /\ \E i \in 1..Len(Applied) :
          LET p == Applied[i]
              e == EntryOf(p)
          IN /\ e.opcode = "str"
             /\ regs[e.operands[1]] # e.regs[e.operands[1]]
             /\ mem[p.output.id] = Unwrap(e.regs[e.operands[1]])

(***************************************************************************)
(* C7  Same-instruction isolation: begin_execution changes no register and *)
(* no memory cell, and every slot of the instruction reads the registers   *)
(* and memory as they were before the instruction.                         *)
(***************************************************************************)
NewEntries == (PreState.nissued + 1)..Len(issued)

C7_IssueIsolation ==
    last = "begin_execution" =>
        /\ regs = PreState.regs
        /\ mem = PreState.mem
        /\ pc = PreState.pc
        /\ \A k \in NewEntries :
              /\ issued[k].regs = PreState.regs
              /\ issued[k].mem = PreState.mem
              /\ issued[k].op.output.value = IssueValue(issued[k])

\* one instruction holds an ldi to a register and a slot reading that
\* register, and the reader got the older value
C7_Witness ==
    /\ last = "begin_execution"
    /\ \E k1, k2 \in NewEntries :
          /\ issued[k1].opcode = "ldi"
          /\ issued[k2].opcode = "str"
          /\ issued[k2].operands[1] = issued[k1].operands[1]
          /\ issued[k2].op.output.value # issued[k1].op.output.value

(***************************************************************************)
(* C8  Latency: every operation has complete_by = issued_at + latency of   *)
(* its opcode (ldi 1, ldr 5, str 5, add 2, sub 2, mul 10), issued_at is    *)
(* the pc of its issue, and during the first compute call that is the      *)
(* index of its instruction; operations in flight keep these fields.       *)
(***************************************************************************)
C8_Latency ==
    /\ \A k \in 1..Len(issued) :
          LET e == issued[k] IN
          /\ e.op.complete_by = e.op.started_at + LatencyOf(e.opcode)
          /\ e.op.started_at = e.pc
          /\ e.call = 1 => e.op.started_at = e.ip
    /\ \A i \in 1..Len(pending_operations) :
          LET p == pending_operations[i] IN
          /\ p.complete_by = EntryOf(p).op.complete_by
          /\ p.started_at = EntryOf(p).op.started_at

\* a mul issued by the third instruction is in flight until cycle 12
C8_Witness ==
    \E i \in 1..Len(pending_operations) :
        LET p == pending_operations[i] IN
        /\ EntryOf(p).opcode = "mul"
        /\ EntryOf(p).ip = 2
        /\ p.started_at = 2
        /\ p.complete_by = 12

(***************************************************************************)
(* C9  Issue-time failure discards pending work: an operation in flight    *)
(* when compute fails at issue time is never retired by a later call, that *)
(* is, an end_cycle only pops operations issued by the running call.       *)
(***************************************************************************)
C9_FailureDiscardsPending ==
    EndCycleStep =>
        \A i \in 1..Len(popped) : EntryOf(popped[i]).call = calls

(***************************************************************************)
(* C10  Race error contents: the error names the shared destination, the   *)
(* cycle counter at retirement (complete_by - 1), and the issue cycles of  *)
(* the racing writer popped first and of the one popped next; the program  *)
(* ldi r0 1; add r1 r0 r0; ldi r1 3 fails with                             *)
(* RegisterDataRace {reg 1, pc 2, inst1 1, inst2 2}.                       *)
(***************************************************************************)
ExampleRaceProgram ==
    /\ Len(issued) = 3
    /\ \A k \in 1..3 : issued[k].call = 1 /\ issued[k].ip = k - 1
    /\ issued[1].opcode = "ldi" /\ issued[1].operands = <<0, 1>>
    /\ issued[2].opcode = "add" /\ issued[2].operands = <<1, 0, 0>>
    /\ issued[3].opcode = "ldi" /\ issued[3].operands = <<1, 3>>

C10_RaceErrorContents ==
    /\ IsRace(result) =>
          /\ Len(popped) >= 2
          /\ LET a == popped[Len(popped) - 1]
                 b == popped[Len(popped)]
                 e == ErrorOf(result)
             IN /\ e[1] = (IF b.output.kind = "WriteToRegister"
                           THEN "RegisterDataRace" ELSE "MemoryDataRace")
                /\ e[2] = a.output.id /\ e[2] = b.output.id
                /\ a.output.kind = b.output.kind
                /\ e[3] = pc /\ e[3] = a.complete_by - 1 /\ e[3] = b.complete_by - 1
                /\ e[4] = a.started_at
                /\ e[5] = b.started_at
    /\ (ExampleRaceProgram /\ last = "end_cycle" /\ ~allow_data_race) =>
          result = Some(Err(RegisterDataRace(1, 2, 1, 2)))

\* the example program has failed with its race error
C10_Witness ==
    /\ ExampleRaceProgram
    /\ result = Some(Err(RegisterDataRace(1, 2, 1, 2)))

(***************************************************************************)
(* C11  Lenient mode: with allow_data_race set no end_cycle fails; it pops *)
(* every operation due on its cycle and applies every write in pop order,  *)
(* so each destination written holds the value of the writer popped last.  *)
(***************************************************************************)
C11_LenientMode ==
    (EndCycleStep /\ PreState.allow_data_race) =>
        /\ ~EndCycleFailed
        /\ pc = PreState.pc + 1
        /\ Len(popped) = Cardinality(Retiring(PreState))
        /\ SubSeq(retired, PreState.nretired + 1, Len(retired)) = popped
        /\ \A i \in 1..Len(popped) :
              (\A j \in (i + 1)..Len(popped) : ~SameDestination(popped[i], popped[j])) =>
                  IF popped[i].output.kind = "WriteToRegister"
                  THEN regs[popped[i].output.id] = Some(popped[i].output.value)
                  ELSE /\ popped[i].output.id \in DOMAIN mem
                       /\ mem[popped[i].output.id] = popped[i].output.value

\* in lenient mode two writers of one register with different values retire
\* on one cycle and the register holds the value of the one popped last
C11_Witness ==
    /\ EndCycleStep
    /\ PreState.allow_data_race
    /\ Collision(PreState)
    /\ \E i, j \in 1..Len(popped) :
          /\ i < j
          /\ SameDestination(popped[i], popped[j])
          /\ popped[i].output.value # popped[j].output.value
          /\ popped[j].output.kind = "WriteToRegister"
          /\ regs[popped[j].output.id] = Some(popped[j].output.value)

(***************************************************************************)
(* C12  MemoryDataRace is unreachable: no compute call returns it, at most *)
(* one memory write is due on any cycle, and no end_cycle pops two writes  *)
(* of one address.                                                         *)
(***************************************************************************)
C12_NoMemoryDataRace ==
    /\ ~(IsError(result) /\ ErrorOf(result)[1] = "MemoryDataRace")
    /\ EndCycleStep =>
          /\ Cardinality({i \in Retiring(PreState) :
                 PreState.pending_operations[i].output.kind = "WriteToMemory"}) <= 1
          /\ \A i, j \in 1..Len(popped) :
                (i # j /\ popped[i].output.kind = "WriteToMemory")
                    => ~SameDestination(popped[i], popped[j])

(***************************************************************************)
(* C13  Result of a successful run: when compute has returned Ok the heap  *)
(* is empty, every operation the call issued has retired, and the value    *)
(* returned is the content of register 0, which is the value of the last   *)
(* retired write to register 0.                                            *)
(***************************************************************************)
WritesRegister0(op) == op.output.kind = "WriteToRegister" /\ op.output.id = 0

C13_ResultOfSuccess ==
    (result # None /\ IsOk(Unwrap(result))) =>
        /\ pending_operations = <<>>
        /\ \A k \in 1..Len(issued) :
              issued[k].call = calls => \E i \in 1..Len(retired) : retired[i].uid = k
        /\ regs[0] = Some(Unwrap(result)[2])
        /\ \E i \in 1..Len(retired) :
              /\ WritesRegister0(retired[i])
              /\ \A j \in (i + 1)..Len(retired) : ~WritesRegister0(retired[j])
              /\ retired[i].output.value = Unwrap(result)[2]

\* compute has returned Ok after two writes of different values to
\* register 0, and after a write to another destination retired later
C13_Witness ==
    /\ result # None
    /\ IsOk(Unwrap(result))
    /\ \E i, j \in 1..Len(retired) :
          /\ i < j
          /\ WritesRegister0(retired[i])
          /\ WritesRegister0(retired[j])
          /\ retired[i].output.value # retired[j].output.value
          /\ retired[j].output.value = Unwrap(result)[2]
    /\ ~WritesRegister0(retired[Len(retired)])

(***************************************************************************)
(* C14  Clock: begin_execution leaves pc alone and every end_cycle that    *)
(* does not fail, of an instruction (a bubble included) or of the drain,   *)
(* advances pc by exactly 1; a successful first compute of n instructions  *)
(* ends with pc = max(n, largest complete_by issued): 4 for ldi;ldi;sub,   *)
(* 12 for ldi;ldi;mul, 6 for ldi;str.                                      *)
(***************************************************************************)
Max(a, b) == IF a >= b THEN a ELSE b

RECURSIVE LargestCompleteBy(_)
LargestCompleteBy(k) ==
    IF k = 0 THEN 0 ELSE Max(issued[k].op.complete_by, LargestCompleteBy(k - 1))

\* the first call issued exactly these opcodes, one per instruction
FirstProgramIs(opcodes) ==
    /\ calls = 1
    /\ ip = Len(opcodes)
    /\ Len(issued) = Len(opcodes)
    /\ \A k \in 1..Len(opcodes) :
          issued[k].opcode = opcodes[k] /\ issued[k].ip = k - 1

Succeeded == result # None /\ IsOk(Unwrap(result))

C14_Clock ==
    /\ last = "begin_execution" => pc = PreState.pc
    /\ (EndCycleStep /\ ~EndCycleFailed) => pc = PreState.pc + 1
    /\ (last = "end_cycle" /\ ~EndCycleFailed /\ calls = 1) => pc = ip
    /\ (Succeeded /\ calls = 1) => pc = Max(ip, LargestCompleteBy(Len(issued)))
    /\ (Succeeded /\ FirstProgramIs(<<"ldi", "ldi", "sub">>)) => pc = 4
    /\ (Succeeded /\ FirstProgramIs(<<"ldi", "ldi", "mul">>)) => pc = 12
    /\ (Succeeded /\ FirstProgramIs(<<"ldi", "str">>)) => pc = 6

\* ldi;ldi;mul has returned Ok at pc 12, nine drain cycles after its three
\* instructions
C14_Witness ==
    /\ Succeeded
    /\ FirstProgramIs(<<"ldi", "ldi", "mul">>)
    /\ pc = 12

(***************************************************************************)
(* C15  Issue-time errors: begin_execution fails exactly when an active    *)
(* slot names a register id >= 8, reads an empty source register or loads  *)
(* from an address absent from memory; InvalidRegister carries a register  *)
(* id >= 8 of the instruction, UninitializedRegister an empty source       *)
(* register, UninitializedMemory the absent address of the ldr slot, and   *)
(* each carries the pc of the failing instruction.  An instruction whose   *)
(* only slot has a destination >= 8 fails with InvalidRegister{dst, pc}.   *)
(***************************************************************************)
Slot(i, k) == IF i[k] = None THEN {} ELSE {Unwrap(i[k])}
\* destination registers, source registers and load address of an instruction
Destinations(i) ==
    {a[1] : a \in Slot(i, "ldi") \cup Slot(i, "ldr") \cup Slot(i, "add")
                    \cup Slot(i, "sub") \cup Slot(i, "mul")}
Sources(i) ==
    {a[1] : a \in Slot(i, "str")}
    \cup {a[2] : a \in Slot(i, "add") \cup Slot(i, "sub") \cup Slot(i, "mul")}
    \cup {a[3] : a \in Slot(i, "add") \cup Slot(i, "sub") \cup Slot(i, "mul")}
LoadAddresses(i) == {a[2] : a \in Slot(i, "ldr")}

IssuedInstruction == Unwrap(PreState.instruction)

C15_IssueErrors ==
    last = "begin_execution" =>
        LET i == IssuedInstruction
            s == PreState
            failed == phase = "idle"
            e == ErrorOf(result)
        IN /\ failed <=>
                 \/ \E r \in Destinations(i) \cup Sources(i) : r >= 8
                 \/ \E r \in Sources(i) : r < 8 /\ s.regs[r] = None
                 \/ \E a \in LoadAddresses(i) : a \notin DOMAIN s.mem
           /\ failed =>
                 /\ IsIssueError(result)
                 /\ e[3] = s.pc
                 /\ calls = 1 => e[3] = ip
                 /\ e[1] = "InvalidRegister" =>
                       e[2] >= 8 /\ e[2] \in Destinations(i) \cup Sources(i)
                 /\ e[1] = "UninitializedRegister" =>
                       e[2] \in Sources(i) /\ e[2] < 8 /\ s.regs[e[2]] = None
                 /\ e[1] = "UninitializedMemory" =>
                       e[2] \in LoadAddresses(i) /\ e[2] \notin DOMAIN s.mem
           /\ (ActiveSlots(i) = 1 /\ \E d \in Destinations(i) : d >= 8) =>
                 \E d \in Destinations(i) : result = Some(Err(InvalidRegister(d, s.pc)))

\* the three errors are returned by instructions issued after cycle 0
C15_Witness ==
    /\ last = "begin_execution"
    /\ pc >= 1
    /\ IsIssueError(result)
    /\ ErrorOf(result) = InvalidRegister(REGISTER_COUNT, pc)
    /\ Destinations(IssuedInstruction) = {REGISTER_COUNT}

C15_WitnessRegister ==
    /\ last = "begin_execution"
    /\ pc >= 1
    /\ Len(issued) > PreState.nissued
    /\ IsIssueError(result)
    /\ ErrorOf(result) = UninitializedRegister(1, pc)

C15_WitnessMemory ==
    /\ last = "begin_execution"
    /\ pc >= 1
    /\ IsIssueError(result)
    /\ ErrorOf(result) = UninitializedMemory(1, pc)

(***************************************************************************)
(* C16  If no retired operation ever wrote register 0, compute does not    *)
(* return Ok: after the drain it returns UninitializedRegister{reg 0, pc}  *)
(* with the final pc, which is 0 for the empty program on a new machine.   *)
(***************************************************************************)
Register0Written == \E i \in 1..Len(retired) : WritesRegister0(retired[i])

C16_EmptyRegister0 ==
    /\ (last = "return" /\ ~Register0Written) =>
          result = Some(Err(UninitializedRegister(0, pc)))
    /\ (last = "return" /\ calls = 1 /\ ip = 0) =>
          result = Some(Err(UninitializedRegister(0, 0)))
    /\ (result # None /\ IsOk(Unwrap(result))) => Register0Written

\* a first call that only wrote register 1 has drained and returned the
\* error with the pc it stopped at
C16_Witness ==
    /\ last = "return"
    /\ calls = 1
    /\ retired # <<>>
    /\ pc >= LDR
    /\ result = Some(Err(UninitializedRegister(0, pc)))

(***************************************************************************)
(* C17  Strong-eval of an all-numeric tree is one number, the value of the *)
(* tree under 32-bit wrapping add/sub/mul, which is also the value of the  *)
(* fully parenthesised weak_eval expression: 200 + (2^32 - 1) = 199,       *)
(* 1 - 2 = 2^32 - 1, 3000000000 * 2 = 1705032704.                          *)
(***************************************************************************)
RECURSIVE AllConst(_)
AllConst(e) ==
    CASE e[1] = "Const" -> TRUE
      [] e[1] = "SymbolicVariable" -> FALSE
      [] OTHER -> AllConst(e[2]) /\ AllConst(e[3])

\* the value of an all-numeric tree, as a u32
RECURSIVE TreeValue(_)
TreeValue(e) ==
    CASE e[1] = "Const" -> U32(e[2])
      [] e[1] = "Add" -> wrapping_add(TreeValue(e[2]), TreeValue(e[3]))
      [] e[1] = "Sub" -> wrapping_sub(TreeValue(e[2]), TreeValue(e[3]))
      [] e[1] = "Mul" -> wrapping_mul(TreeValue(e[2]), TreeValue(e[3]))

\* the same value modulo 2^15, in unbounded integer arithmetic
RECURSIVE TreeValueMod(_)
TreeValueMod(e) ==
    CASE e[1] = "Const" -> e[2] % 32768
      [] e[1] = "Add" -> (TreeValueMod(e[2]) + TreeValueMod(e[3])) % 32768
      [] e[1] = "Sub" -> (TreeValueMod(e[2]) - TreeValueMod(e[3]) + 32768) % 32768
      [] e[1] = "Mul" -> (TreeValueMod(e[2]) * TreeValueMod(e[3])) % 32768

\* the value of a fully parenthesised infix string of numbers
Digits == {ToString(d) : d \in 0..9}
DigitOf(c) == CHOOSE d \in 0..9 : ToString(d) = c

RECURSIVE ParseNumber(_, _, _)
ParseNumber(s, pos, acc) ==
    IF pos <= Len(s) /\ s[pos] \in Digits
    THEN ParseNumber(s, pos + 1,
                     wrapping_add(wrapping_mul(acc, U32(10)), U32(DigitOf(s[pos]))))
    ELSE <<acc, pos>>

RECURSIVE ParseTerm(_, _)
ParseTerm(s, pos) ==
    IF s[pos] = "("
    THEN LET l == ParseTerm(s, pos + 1)
             op == s[l[2] + 1]
             r == ParseTerm(s, l[2] + 3)
             v == CASE op = "+" -> wrapping_add(l[1], r[1])
                    [] op = "-" -> wrapping_sub(l[1], r[1])
                    [] op = "*" -> wrapping_mul(l[1], r[1])
         IN <<v, r[2] + 1>>
    ELSE ParseNumber(s, pos, U32(0))

InfixValue(s) == ParseTerm(s, 1)[1]

C17_StrongEvalNumeric ==
    /\ (expr # None /\ AllConst(Unwrap(expr))) =>
          LET e == Unwrap(expr) IN
          /\ TreeValue(e)[2] % 32768 = TreeValueMod(e)
          /\ strong # None =>
                /\ Unwrap(strong) = U32ToString(TreeValue(e))
                /\ \A n \in 1..Len(Unwrap(strong)) : Unwrap(strong)[n] \in Digits
          /\ (weak # None /\ strong # None) =>
                U32ToString(InfixValue(Unwrap(weak))) = Unwrap(strong)
    /\ EvaluatedAdd(FromU32(U32(200)), FromU32(U32_MAX)) = FromU32(U32(199))
    /\ EvaluatedSub(FromU32(U32(1)), FromU32(U32(2))) = FromU32(U32_MAX)
    /\ EvaluatedMul(FromU32(<<45776, 24064>>), FromU32(U32(2))) = FromU32(U32(1705032704))
    /\ strong_eval(NumericExample) = <<"9", "3">>
    /\ U32ToString(<<45776, 24064>>) = <<"3", "0", "0", "0", "0", "0", "0", "0", "0", "0">>
    /\ U32ToString(U32_MAX) = <<"4", "2", "9", "4", "9", "6", "7", "2", "9", "5">>

\* 1 - 2 has been evaluated both ways: "(1 - 2)" and "4294967295"
C17_Witness ==
    /\ expr = Some(ExprSub(Const(1), Const(2)))
    /\ weak = Some(<<"(", "1", " ", "-", " ", "2", ")">>)
    /\ strong = Some(<<"4", "2", "9", "4", "9", "6", "7", "2", "9", "5">>)

(***************************************************************************)
(* C18  Partial folding: in strong_eval an Add/Sub/Mul node is a number if *)
(* and only if both of its direct operands evaluated to numbers; otherwise *)
(* it is a string, also when adjacent constants could be combined:         *)
(* 1 + (2 - A) renders "1 + 2 - A" and (1 + 2) - A renders "3 - A".        *)
(***************************************************************************)
\* the operator nodes of an expression
RECURSIVE Nodes(_)
Nodes(e) ==
    IF e[1] \in {"Const", "SymbolicVariable"} THEN {}
    ELSE {e} \cup Nodes(e[2]) \cup Nodes(e[3])

OnePlusTwoMinusA == ExprAdd(Const(1), ExprSub(Const(2), SymbolicVariable("A")))
OnePlusTwoThenMinusA == ExprSub(ExprAdd(Const(1), Const(2)), SymbolicVariable("A"))

C18_PartialFolding ==
    strong # None =>
        /\ \A n \in Nodes(Unwrap(expr)) :
              /\ IsNumeric(FromExpr(n)) <=>
                    (IsNumeric(FromExpr(n[2])) /\ IsNumeric(FromExpr(n[3])))
              /\ FromExpr(n).kind[1] \in {"Numeric", "Value"}
        /\ (\A n \in 1..Len(Unwrap(strong)) : Unwrap(strong)[n] \in Digits)
              <=> AllConst(Unwrap(expr))
        /\ expr = Some(OnePlusTwoMinusA) =>
              strong = Some(<<"1", " ", "+", " ", "2", " ", "-", " ", "A">>)
        /\ expr = Some(OnePlusTwoThenMinusA) =>
              strong = Some(<<"3", " ", "-", " ", "A">>)

\* both examples have been evaluated
C18_Witness ==
    /\ expr = Some(OnePlusTwoMinusA)
    /\ strong = Some(<<"1", " ", "+", " ", "2", " ", "-", " ", "A">>)

C18_WitnessFolded ==
    /\ expr = Some(OnePlusTwoThenMinusA)
    /\ strong = Some(<<"3", " ", "-", " ", "A">>)

(***************************************************************************)
(* C19  Parenthesisation in strong_eval, for a node that does not fold:    *)
(* Sub wraps its right operand iff that operand's tag is Add or Sub and    *)
(* never its left operand, Mul wraps each operand iff its tag is Add or    *)
(* Sub, Add wraps neither; the tags of the results are Sub, Mul and Add.   *)
(* A*B - ((C+D) - (E*12)) renders "A * B - (C + D - E * 12)".              *)
(***************************************************************************)
Tagged(x) == x.precedence \in {"Add", "Sub"}
Wrap(x) == <<"(">> \o EvaluatedToString(x) \o <<")">>
WrapIfTagged(x) == IF Tagged(x) THEN Wrap(x) ELSE EvaluatedToString(x)

C19_Parentheses ==
    strong # None =>
        /\ \A n \in Nodes(Unwrap(expr)) :
              LET l == FromExpr(n[2])
                  r == FromExpr(n[3])
                  x == FromExpr(n)
              IN ~IsNumeric(x) =>
                   /\ x.kind[1] = "Value"
                   /\ n[1] = "Sub" =>
                         /\ x.kind[2] = EvaluatedToString(l) \o <<" ", "-", " ">>
                                            \o WrapIfTagged(r)
                         /\ x.precedence = "Sub"
                   /\ n[1] = "Mul" =>
                         /\ x.kind[2] = WrapIfTagged(l) \o <<" ", "*", " ">>
                                            \o WrapIfTagged(r)
                         /\ x.precedence = "Mul"
                   /\ n[1] = "Add" =>
                         /\ x.kind[2] = EvaluatedToString(l) \o <<" ", "+", " ">>
                                            \o EvaluatedToString(r)
                         /\ x.precedence = "Add"
        /\ expr = Some(SymbolicExample) =>
              strong = Some(<<"A", " ", "*", " ", "B", " ", "-", " ", "(", "C",
                        " ", "+", " ", "D", " ", "-", " ", "E", " ", "*",
                        " ", "1", "2", ")">>)
        /\ expr = Some(LongPolynomial) =>
              strong = Some(<<"(", "A", " ", "+", " ", "1", ")", " ", "*", " ",
                        "(", "B", " ", "+", " ", "2", ")", " ", "*", " ",
                        "(", "C", " ", "-", " ", "D", " ", "+", " ", "3",
                        ")", " ", "+", " ", "4", " ", "*", " ", "C", " ",
                        "*", " ", "D">>)

\* the example has been rendered
C19_Witness ==
    /\ expr = Some(SymbolicExample)
    /\ strong = Some(<<"A", " ", "*", " ", "B", " ", "-", " ", "(", "C", " ",
                    "+", " ", "D", " ", "-", " ", "E", " ", "*", " ", "1",
                    "2", ")">>)

(***************************************************************************)
(* C20  Operand order: add dst src1 src2 writes Add(value of src2, value   *)
(* of src1), whose weak_eval is "(src2 + src1)"; sub writes                *)
(* Sub(src1, src2) and mul writes Mul(src1, src2), rendered                *)
(* "(src1 - src2)" and "(src1 * src2)".                                    *)
(***************************************************************************)
Infix(left, sign, right) ==
    <<"(">> \o weak_eval(left) \o <<" ", sign, " ">> \o weak_eval(right) \o <<")">>

C20_OperandOrder ==
    /\ \A k \in 1..Len(issued) :
          LET e == issued[k]
              value == e.op.output.value
              src1 == Unwrap(e.regs[e.operands[2]])
              src2 == Unwrap(e.regs[e.operands[3]])
          IN /\ e.opcode = "add" =>
                   /\ value = <<"Add", src2, src1>>
                   /\ weak_eval(value) = Infix(src2, "+", src1)
             /\ e.opcode = "sub" =>
                   /\ value = <<"Sub", src1, src2>>
                   /\ weak_eval(value) = Infix(src1, "-", src2)
             /\ e.opcode = "mul" =>
                   /\ value = <<"Mul", src1, src2>>
                   /\ weak_eval(value) = Infix(src1, "*", src2)
    /\ (Succeeded /\ FirstProgramIs(<<"ldi", "ldi", "add">>)
           /\ issued[1].operands = <<0, 1>> /\ issued[2].operands = <<1, 3>>
           /\ issued[3].operands = <<0, 0, 1>>) =>
          /\ weak_eval(Unwrap(result)[2]) = <<"(", "3", " ", "+", " ", "1", ")">>
          /\ strong_eval(Unwrap(result)[2]) = <<"4">>

\* ldi r0 1; ldi r1 3; add r0 r0 r1 has returned the sum with r1 on the left
C20_Witness ==
    /\ Succeeded
    /\ FirstProgramIs(<<"ldi", "ldi", "add">>)
    /\ issued[3].operands = <<0, 0, 1>>
    /\ weak_eval(Unwrap(result)[2]) = <<"(", "3", " ", "+", " ", "1", ")">>

\* a sub of two different values has been issued
C20_WitnessSub ==
    \E k \in 1..Len(issued) :
        /\ issued[k].opcode = "sub"
        /\ issued[k].op.output.value[2] # issued[k].op.output.value[3]

\* a mul of two different values has been issued
C20_WitnessMul ==
    \E k \in 1..Len(issued) :
        /\ issued[k].opcode = "mul"
        /\ issued[k].op.output.value[2] # issued[k].op.output.value[3]

(***************************************************************************)
(* C21  The program parser ignores comments and blank lines: inserting a   *)
(* line that begins with '#' or an empty line anywhere in a file that      *)
(* parses (before, between or after the instructions, also after the last  *)
(* ';') leaves the parsed instruction list the same and raises no error.   *)
(***************************************************************************)
Finished == outcome # None
Parsed == Finished /\ IsOk(Unwrap(outcome))

\* the file with line c inserted after its first p lines
Inserted(p, c) == SubSeq(file, 1, p) \o <<c>> \o SubSeq(file, p + 1, Len(file))

C21_CommentsIgnored ==
    Parsed =>
      \A p \in 0..Len(file) : \A c \in IgnoredLines :
          read_program(Inserted(p, c)) = Unwrap(outcome)

(***************************************************************************)
(* C22  The program parser rejects an unterminated instruction: when an    *)
(* operation line follows the last ';' of the file (or the file has no     *)
(* ';'), read_program fails; when every line is well formed the failure is *)
(* the missing-semicolon panic.                                            *)
(***************************************************************************)
Unterminated ==
    \E k \in 1..Len(file) :
        /\ file[k] \in OperationLines
        /\ \A j \in (k + 1)..Len(file) : file[j] # CommitLine

C22_UnterminatedRejected ==
    (Finished /\ Unterminated) =>
        /\ IsErr(Unwrap(outcome))
        /\ (\A k \in 1..Len(file) : file[k] \in {LdiLine, AddLine, CommitLine})
              => Unwrap(outcome) = Err(MissingSemicolon)

\* ldi 0 1 / ; / add 1 0 0 has been read to its end and refused
C22_Witness ==
    /\ file = <<LdiLine, CommitLine, AddLine>>
    /\ outcome = Some(Err(MissingSemicolon))
    /\ Len(program) = 1

(***************************************************************************)
(* C23  As claimed: two successive instructions that each contain a str to *)
(* the same address (sources initialised, allow_data_race false) race, and *)
(* compute fails with MemoryDataRace for that address.                     *)
(***************************************************************************)
\* entries k and m are stores to one address issued by successive
\* instructions of one compute call
SuccessiveStores(k, m) ==
    /\ issued[k].opcode = "str"
    /\ issued[m].opcode = "str"
    /\ issued[k].operands[2] = issued[m].operands[2]
    /\ issued[k].call = issued[m].call
    /\ issued[m].pc = issued[k].pc + 1

\* the last compute call has returned
Returned == phase = "idle" /\ result # None /\ last # "allow_data_race"

PositionIn(seq, uid) == {i \in 1..Len(seq) : seq[i].uid = uid}

C23_SuccessiveStoresRace ==
    \A k, m \in 1..Len(issued) :
        (Returned /\ ~allow_data_race /\ SuccessiveStores(k, m)
           /\ issued[m].call = calls) =>
            /\ IsError(result)
            /\ ErrorOf(result)[1] = "MemoryDataRace"
            /\ ErrorOf(result)[2] = issued[k].operands[2]

\* C23 as amended: two successive instructions of one program that each
\* contain a str to the same address do not race with each other: the
\* second store is due one cycle after the first, no end_cycle pops both,
\* a MemoryDataRace never names two different instructions, and a compute
\* that returns Ok has applied both stores, the first before the second.
C23_SuccessiveStoresRetireApart ==
    /\ \A k, m \in 1..Len(issued) :
          SuccessiveStores(k, m) =>
            /\ issued[m].op.complete_by = issued[k].op.complete_by + 1
            /\ EndCycleStep =>
                  (PositionIn(popped, k) = {} \/ PositionIn(popped, m) = {})
            /\ (Returned /\ Succeeded /\ issued[m].call = calls) =>
                  /\ PositionIn(retired, k) # {}
                  /\ PositionIn(retired, m) # {}
                  /\ \A i \in PositionIn(retired, k) :
                        \A j \in PositionIn(retired, m) : i < j
    /\ (IsError(result) /\ ErrorOf(result)[1] = "MemoryDataRace") =>
          ErrorOf(result)[4] = ErrorOf(result)[5]

\* ldi r0; str r0 a0; str r0 a0 has returned Ok with both stores applied
C23_Witness ==
    /\ Returned
    /\ Succeeded
    /\ ~allow_data_race
    /\ \E k, m \in 1..Len(issued) :
          /\ SuccessiveStores(k, m)
          /\ PositionIn(retired, k) # {}
          /\ PositionIn(retired, m) # {}
    /\ mem[0] = Const(1)

(***************************************************************************)
(* C24  No operation misses its retirement cycle: in every reachable state *)
(* every pending operation has complete_by > pc, so the assertion of       *)
(* end_cycle never fires; an end_cycle pops only operations with           *)
(* complete_by = pc + 1, leaves every other operation pending and, when it *)
(* returns Ok, has retired every operation with complete_by = pc + 1.      *)
(***************************************************************************)
Uids(heap) == {heap[i].uid : i \in 1..Len(heap)}
Due(s) == {s.pending_operations[i].uid : i \in Retiring(s)}

C24_NoMissedRetirement ==
    /\ \A i \in 1..Len(pending_operations) : pending_operations[i].complete_by > pc
    /\ ~(IsError(result) /\ ErrorOf(result) = Panic)
    /\ EndCycleStep =>
          /\ Uids(popped) \subseteq Due(PreState)
          /\ Uids(pending_operations) = Uids(PreState.pending_operations) \ Uids(popped)
          /\ Len(pending_operations) + Len(popped) = Len(PreState.pending_operations)
          /\ ~EndCycleFailed =>
                /\ Uids(popped) = Due(PreState)
                /\ Uids(SubSeq(retired, PreState.nretired + 1, Len(retired)))
                      = Due(PreState)
                /\ pc = PreState.pc + 1

\* an end_cycle of a second compute call has retired an operation and left
\* another pending
C24_Witness ==
    /\ EndCycleStep
    /\ ~EndCycleFailed
    /\ calls >= 2
    /\ popped # <<>>
    /\ pending_operations # <<>>

(***************************************************************************)
(* C25  Destination-keyed equality: two OperationOutputs are equal iff     *)
(* they have the same kind and the same destination id, whatever their     *)
(* values; so a register write to id k and a memory write to address k     *)
(* retiring on one cycle are no data race and both are applied.            *)
(***************************************************************************)
MixedPair(a, b) == a.output.kind # b.output.kind /\ a.output.id = b.output.id

C25_DestinationKeyedEquality ==
    /\ \A k, m \in 1..Len(issued) :
          OutputEq(issued[k].op.output, issued[m].op.output)
              <=> (/\ issued[k].op.output.kind = issued[m].op.output.kind
                   /\ issued[k].op.output.id = issued[m].op.output.id)
    /\ EndCycleStep =>
          /\ (EndCycleFailed /\ IsRace(result)) =>
                ~MixedPair(popped[Len(popped) - 1], popped[Len(popped)])
          /\ (~EndCycleFailed /\ Len(popped) = 2 /\ MixedPair(popped[1], popped[2])) =>
                /\ popped[1].output.kind = "WriteToMemory"
                /\ mem[popped[1].output.id] = popped[1].output.value
                /\ regs[popped[2].output.id] = Some(popped[2].output.value)

\* with allow_data_race false, ldr r1 a0 and str r0 a1 of one instruction
\* have retired on one cycle
C25_Witness ==
    /\ EndCycleStep
    /\ ~EndCycleFailed
    /\ ~allow_data_race
    /\ Len(popped) = 2
    /\ MixedPair(popped[1], popped[2])
    /\ EntryOf(popped[1]).opcode = "str"
    /\ EntryOf(popped[2]).opcode = "ldr"
    /\ EntryOf(popped[1]).ip = EntryOf(popped[2]).ip
    /\ mem[1] = Const(1)
    /\ regs[1] = Some(SymbolicVariable("A"))

\* two writes of one register with different values have been issued
C25_WitnessValues ==
    \E k, m \in 1..Len(issued) :
        /\ issued[k].op.output.value # issued[m].op.output.value
        /\ OutputEq(issued[k].op.output, issued[m].op.output)

(***************************************************************************)
(* C26  Comparison of InflightOperations is a consistent total preorder:   *)
(* a == b iff cmp(a, b) is Equal iff both have the same complete_by and    *)
(* the same destination kind and id (an add and a sub to one register      *)
(* issued together are equal); an operation with a smaller complete_by     *)
(* compares greater, so the max-heap yields it first; at equal complete_by *)
(* a register-write compares less than a memory-write.                     *)
(***************************************************************************)
\* the operations of test_inflight_operation_ordering
TestOperations ==
    [ldi |-> from_ldi(0, 0, 1),
     ldr |-> from_ldr(0, 0, Const(1)),
     str |-> from_str(0, Const(1), 0),
     add |-> from_add(0, 0, Const(1), Const(2)),
     sub |-> from_sub(0, 0, Const(1), Const(2)),
     mul |-> from_mul(0, 0, Const(1), Const(2))]

\* the operations issued so far; the set grows only in begin_execution
Compared == {issued[k].op : k \in 1..Len(issued)}

C26_OperationOrder ==
    /\ last = "begin_execution" =>
          /\ \A a, b \in Compared :
                /\ OpEq(a, b) <=> OpCmp(a, b) = "Equal"
                /\ OpEq(a, b) <=> (a.complete_by = b.complete_by /\ SameDestination(a, b))
                /\ OpCmp(a, b) = Reverse(OpCmp(b, a))
                /\ a.complete_by < b.complete_by => OpCmp(a, b) = "Greater"
                /\ (/\ a.complete_by = b.complete_by
                    /\ a.output.kind = "WriteToRegister"
                    /\ b.output.kind = "WriteToMemory") => OpCmp(a, b) = "Less"
                /\ \A c \in Compared : (OpLe(a, b) /\ OpLe(b, c)) => OpLe(a, c)
          /\ LET t == TestOperations IN
                /\ OpEq(t.add, t.sub) /\ OpCmp(t.add, t.sub) = "Equal"
                /\ OpCmp(t.ldi, t.ldr) = "Greater" /\ OpCmp(t.ldi, t.mul) = "Greater"
                /\ OpCmp(t.ldr, t.str) = "Less" /\ ~OpEq(t.ldr, t.str)
                /\ OpCmp(t.str, t.add) = "Less" /\ OpCmp(t.str, t.mul) = "Greater"
    /\ \A i \in 1..Len(pending_operations) :
          pending_operations[1].complete_by <= pending_operations[i].complete_by

\* an add and an ldi of one register due on one cycle, issued by different
\* instructions with different values, are both in the heap
C26_Witness ==
    \E i, j \in 1..Len(pending_operations) :
        /\ EntryOf(pending_operations[i]).opcode = "add"
        /\ EntryOf(pending_operations[j]).opcode = "ldi"
        /\ OpEq(pending_operations[i], pending_operations[j])
        /\ pending_operations[i].started_at # pending_operations[j].started_at
        /\ pending_operations[i].output.value # pending_operations[j].output.value

\* a register-write and a memory-write due on one cycle are both in the heap
C26_WitnessKinds ==
    \E i, j \in 1..Len(pending_operations) :
        /\ pending_operations[i].complete_by = pending_operations[j].complete_by
        /\ pending_operations[i].output.kind = "WriteToRegister"
        /\ pending_operations[j].output.kind = "WriteToMemory"

(***************************************************************************)
(* C27  Error precedence within an instruction: the slots are issued in    *)
(* the order ldi, ldr, str, add, sub, mul, and the error returned is that  *)
(* of the first failing slot in this order; within a slot the destination  *)
(* register is validated before src1 is read, and src1 before src2.        *)
(***************************************************************************)
SlotOrder == <<"ldi", "ldr", "str", "add", "sub", "mul">>

\* what the operands of slot k are used for, in the claimed order
Uses(k) ==
    CASE k = "ldi" -> <<"destination">>
      [] k = "ldr" -> <<"destination", "address">>
      [] k = "str" -> <<"source">>
      [] OTHER -> <<"destination", "source", "source">>

\* the error of one use of operand x on machine s, if any
UseError(use, x, s) ==
    CASE use = "destination" ->
            IF x >= REGISTER_COUNT THEN Some(InvalidRegister(x, s.pc)) ELSE None
      [] use = "source" ->
            IF x >= REGISTER_COUNT THEN Some(InvalidRegister(x, s.pc))
            ELSE IF s.regs[x] = None THEN Some(UninitializedRegister(x, s.pc))
            ELSE None
      [] use = "address" ->
            IF x \notin DOMAIN s.mem THEN Some(UninitializedMemory(x, s.pc)) ELSE None
      [] OTHER -> None

\* the errors of instruction i on machine s as <<slot number, operand
\* number, error>>
Failures(i, s) ==
    {<<n, u, Unwrap(UseError(Uses(SlotOrder[n])[u], Unwrap(i[SlotOrder[n]])[u], s))>> :
        <<n, u>> \in {<<n, u>> \in (1..6) \X (1..3) :
                        /\ i[SlotOrder[n]] # None
                        /\ u <= Len(Uses(SlotOrder[n]))
                        /\ UseError(Uses(SlotOrder[n])[u],
                                    Unwrap(i[SlotOrder[n]])[u], s) # None}}

Earlier(f, g) == f[1] < g[1] \/ (f[1] = g[1] /\ f[2] < g[2])
FirstFailure(i, s) ==
    CHOOSE f \in Failures(i, s) : \A g \in Failures(i, s) : g = f \/ Earlier(f, g)

C27_ErrorPrecedence ==
    last = "begin_execution" =>
        LET i == IssuedInstruction
            s == PreState
            pushed == [k \in NewEntries |-> issued[k].opcode]
        IN IF Failures(i, s) = {}
           THEN /\ phase = "retire"
                /\ Len(issued) = s.nissued + ActiveSlots(i)
           ELSE LET f == FirstFailure(i, s) IN
                /\ phase = "idle"
                /\ result = Some(Err(f[3]))
                /\ \A k \in NewEntries :
                      \E n \in 1..(f[1] - 1) : issued[k].opcode = SlotOrder[n]
                /\ Len(issued) - s.nissued =
                      Cardinality({n \in 1..(f[1] - 1) : i[SlotOrder[n]] # None})

\* an instruction with two failing slots has returned the error of the
\* earlier one, which differs from that of the later one
C27_Witness ==
    /\ last = "begin_execution"
    /\ \E f, g \in Failures(IssuedInstruction, PreState) :
          /\ f[1] < g[1]
          /\ f[3] # g[3]
          /\ f[3][1] # g[3][1]
          /\ result = Some(Err(f[3]))

\* a slot with an invalid destination and an empty source has returned
\* InvalidRegister for the destination
C27_WitnessDestination ==
    /\ last = "begin_execution"
    /\ \E f, g \in Failures(IssuedInstruction, PreState) :
          /\ f[1] = g[1]
          /\ f[2] = 1
          /\ g[2] > 1
          /\ g[3][1] = "UninitializedRegister"
          /\ result = Some(Err(f[3]))

\* a slot with an empty src1 and an invalid src2 has returned
\* UninitializedRegister for src1
C27_WitnessSources ==
    /\ last = "begin_execution"
    /\ \E f, g \in Failures(IssuedInstruction, PreState) :
          /\ f[1] = g[1]
          /\ f[2] = 2
          /\ g[2] = 3
          /\ f[3][1] = "UninitializedRegister"
          /\ g[3][1] = "InvalidRegister"
          /\ result = Some(Err(f[3]))

(***************************************************************************)
(* C28  A str, add, sub or mul whose source register id is >= 8 fails at   *)
(* issue with InvalidRegister{reg: that source register, pc}, not with     *)
(* UninitializedRegister.                                                  *)
(***************************************************************************)
\* the source operands of slot k of instruction i
SlotSources(i, k) ==
    IF i[k] = None THEN {}
    ELSE IF k = "str" THEN {Unwrap(i[k])[1]}
    ELSE IF k \in {"add", "sub", "mul"} THEN {Unwrap(i[k])[2], Unwrap(i[k])[3]}
    ELSE {}

C28_InvalidSourceRegister ==
    /\ ~(IsError(result) /\ ErrorOf(result)[1] = "UninitializedRegister"
           /\ ErrorOf(result)[2] >= REGISTER_COUNT)
    /\ last = "begin_execution" =>
          LET i == IssuedInstruction
              s == PreState
          IN \A k \in {"str", "add", "sub", "mul"} :
                \A r \in SlotSources(i, k) :
                    (/\ r >= REGISTER_COUNT
                     /\ ActiveSlots(i) = 1
                     /\ Destinations(i) \subseteq 0..(REGISTER_COUNT - 1)
                     /\ \A q \in SlotSources(i, k) \ {r} : s.regs[q] # None)
                      => result = Some(Err(InvalidRegister(r, s.pc)))

\* a str of register 8 and an add with src2 = 8 have been refused after
\* cycle 0
C28_Witness ==
    /\ last = "begin_execution"
    /\ pc >= 1
    /\ IssuedInstruction.add # None
    /\ Unwrap(IssuedInstruction.add)[3] = REGISTER_COUNT
    /\ ActiveSlots(IssuedInstruction) = 1
    /\ result = Some(Err(InvalidRegister(REGISTER_COUNT, pc)))

C28_WitnessStr ==
    /\ last = "begin_execution"
    /\ IssuedInstruction.str # None
    /\ Unwrap(IssuedInstruction.str)[1] = REGISTER_COUNT
    /\ result = Some(Err(InvalidRegister(REGISTER_COUNT, pc)))

(***************************************************************************)
(* C29  Termination: compute returns after finitely many cycles.  The      *)
(* drain loop ends because every end_cycle that returns Ok increments pc   *)
(* and every pending operation has a finite complete_by: each iteration    *)
(* fails or brings pc one closer to the largest complete_by pending, and   *)
(* the heap is empty once pc has reached it.                               *)
(***************************************************************************)
RECURSIVE LargestPending(_)
LargestPending(heap) ==
    IF heap = <<>> THEN 0
    ELSE Max(Head(heap).complete_by, LargestPending(Tail(heap)))

C29_Termination ==
    /\ (phase # "idle") ~> (phase = "idle")
    /\ [][(phase # "idle" /\ last' \in {"end_cycle", "drain"}) =>
            \/ phase' = "idle"
            \/ /\ pc' = pc + 1
               /\ LargestPending(pending_operations') <= LargestPending(pending_operations)
               /\ pc' >= LargestPending(pending_operations) => pending_operations' = <<>>]_vars

\* ldi r0 1; str r0 a0 has drained its store and returned on cycle 6
C29_Witness ==
    /\ Returned
    /\ Succeeded
    /\ last = "return"
    /\ pc = 6
    /\ \E k \in 1..Len(retired) : retired[k].output.kind = "WriteToMemory"

(***************************************************************************)
(* C30  Strong-eval preserves meaning: for every tree over constants and   *)
(* one-letter symbols, the output of strong_eval, read as infix with *     *)
(* binding tighter than + and -, and + and - associating to the left,      *)
(* denotes the value of the tree modulo 2^32 under every assignment of     *)
(* 32-bit values to its symbols; so does the weak_eval rendering.          *)
(***************************************************************************)
\* the symbols of a tree and the values they are given
RECURSIVE SymbolsOf(_)
SymbolsOf(e) ==
    CASE e[1] = "Const" -> {}
      [] e[1] = "SymbolicVariable" -> {e[2]}
      [] OTHER -> SymbolsOf(e[2]) \cup SymbolsOf(e[3])

Assigned == {U32(0), U32(3), <<45776, 24064>>, U32_MAX}
Assignments(e) == [SymbolsOf(e) -> Assigned]

\* the value of a tree under an assignment, as a u32
RECURSIVE TreeValueUnder(_, _)
TreeValueUnder(e, env) ==
    CASE e[1] = "Const" -> U32(e[2])
      [] e[1] = "SymbolicVariable" -> env[e[2]]
      [] e[1] = "Add" -> wrapping_add(TreeValueUnder(e[2], env), TreeValueUnder(e[3], env))
      [] e[1] = "Sub" -> wrapping_sub(TreeValueUnder(e[2], env), TreeValueUnder(e[3], env))
      [] e[1] = "Mul" -> wrapping_mul(TreeValueUnder(e[2], env), TreeValueUnder(e[3], env))

\* reading an infix string: a sum is products joined by + and - from the
\* left, a product is operands joined by *, an operand is a number, a
\* symbol or a sum in parentheses; each returns <<value, next position>>
SkipSpace(s, pos) == IF pos <= Len(s) /\ s[pos] = " " THEN pos + 1 ELSE pos

RECURSIVE ReadSum(_, _, _)
RECURSIVE ReadSumRest(_, _, _, _)
RECURSIVE ReadProduct(_, _, _)
RECURSIVE ReadProductRest(_, _, _, _)
RECURSIVE ReadOperand(_, _, _)

ReadOperand(s, pos, env) ==
    IF s[pos] = "("
    THEN LET inner == ReadSum(s, pos + 1, env) IN <<inner[1], inner[2] + 1>>
    ELSE IF s[pos] \in Digits
    THEN ParseNumber(s, pos, U32(0))
    ELSE <<env[s[pos]], pos + 1>>

ReadProductRest(s, acc, pos, env) ==
    LET at == SkipSpace(s, pos) IN
    IF at <= Len(s) /\ s[at] = "*"
    THEN LET rhs == ReadOperand(s, SkipSpace(s, at + 1), env)
         IN ReadProductRest(s, wrapping_mul(acc, rhs[1]), rhs[2], env)
    ELSE <<acc, pos>>

ReadProduct(s, pos, env) ==
    LET lhs == ReadOperand(s, pos, env) IN ReadProductRest(s, lhs[1], lhs[2], env)

ReadSumRest(s, acc, pos, env) ==
    LET at == SkipSpace(s, pos) IN
    IF at <= Len(s) /\ s[at] \in {"+", "-"}
    THEN LET rhs == ReadProduct(s, SkipSpace(s, at + 1), env)
             sum == IF s[at] = "+" THEN wrapping_add(acc, rhs[1])
                                   ELSE wrapping_sub(acc, rhs[1])
         IN ReadSumRest(s, sum, rhs[2], env)
    ELSE <<acc, pos>>

ReadSum(s, pos, env) ==
    LET lhs == ReadProduct(s, pos, env) IN ReadSumRest(s, lhs[1], lhs[2], env)

\* the value the whole string denotes, None when part of it is left unread
Denotes(s, env) ==
    LET read == ReadSum(s, 1, env)
    IN IF read[2] = Len(s) + 1 THEN Some(read[1]) ELSE None

C30_StrongEvalMeaning ==
    (expr # None /\ strong # None) =>
        \A env \in Assignments(Unwrap(expr)) :
            /\ Denotes(Unwrap(strong), env) = Some(TreeValueUnder(Unwrap(expr), env))
            /\ weak # None =>
                  Denotes(Unwrap(weak), env) = Denotes(Unwrap(strong), env)

\* (A - B) * 2 has been rendered "(A - B) * 2", which is not A - B * 2 when
\* A = 3 and B = 0
C30_Witness ==
    /\ expr = Some(ExprMul(ExprSub(SymbolicVariable("A"), SymbolicVariable("B")),
                           Const(2)))
    /\ strong = Some(<<"(", "A", " ", "-", " ", "B", ")", " ", "*", " ", "2">>)
    /\ weak # None
    /\ LET env == [x \in {"A", "B"} |-> IF x = "A" THEN U32(3) ELSE U32(0)]
       IN /\ Denotes(Unwrap(strong), env) = Some(U32(6))
          /\ Denotes(<<"A", " ", "-", " ", "B", " ", "*", " ", "2">>, env) = Some(U32(3))

\* A - (B - 1) has been rendered with its parentheses, and at A = B = 0 it
\* is 1 where A - B - 1 is 2^32 - 1
C30_WitnessSub ==
    /\ expr = Some(ExprSub(SymbolicVariable("A"),
                           ExprSub(SymbolicVariable("B"), Const(1))))
    /\ strong = Some(<<"A", " ", "-", " ", "(", "B", " ", "-", " ", "1", ")">>)
    /\ LET env == [x \in {"A", "B"} |-> U32(0)]
       IN /\ Denotes(Unwrap(strong), env) = Some(U32(1))
          /\ Denotes(<<"A", " ", "-", " ", "B", " ", "-", " ", "1">>, env) = Some(U32_MAX)

(***************************************************************************)
(* C31  Rendering is observationally pure: whatever cells have been        *)
(* rendered by eval, every handle renders to the string it had when it was *)
(* built, also a handle whose operands were rendered (and overwritten by   *)
(* their string) before; binding a register to another handle changes no   *)
(* rendering; weak_eval and strong_eval return the same string whichever   *)
(* was called first.                                                       *)
(***************************************************************************)
\* the cells eval has overwritten by their string
Overwritten == {h \in 1..Len(cells) : cells[h] # built[h]}

C31_RenderingPure ==
    /\ Len(cells) = Len(built)
    /\ \A h \in 1..Len(cells) : eval_expr(cells, h)[1] = eval_expr(built, h)[1]
    /\ weak # None => Unwrap(weak) = weak_eval(Unwrap(expr))
    /\ strong # None => Unwrap(strong) = strong_eval(Unwrap(expr))

\* a cell built from an operation cell twice over has not been rendered,
\* its operand has been, and a register is bound to it
C31_Witness ==
    \E h, k \in 1..Len(cells) :
        /\ h \in Overwritten
        /\ built[h][1] \in {"Add", "Sub", "Mul"}
        /\ k \notin Overwritten
        /\ cells[k] = CellNode("Sub", h, h)
        /\ bound = Some(k)

(***************************************************************************)
(* C32  Instruction grouping: the program read so far, and the program     *)
(* read_program returns, holds exactly one Instruction per ';' line read,  *)
(* in file order; the slots of each are exactly those set by the operation *)
(* lines since the previous ';', and a ';' with no operation line before   *)
(* it yields a bubble.                                                     *)
(***************************************************************************)
\* what a well-formed operation line sets: the slot and its operands
Meaning(line) ==
    CASE line = LdiLine -> Some(<<"ldi", <<0, 1>>>>)
      [] line = LdiAgainLine -> Some(<<"ldi", <<2, 3>>>>)
      [] line = AddLine -> Some(<<"add", <<1, 0, 0>>>>)
      [] OTHER -> None

\* the ';' lines among the first n lines, and the n-th of them
Commits(n) == {k \in 1..n : file[k] = CommitLine}
Commit(n) == CHOOSE k \in Commits(Len(file)) : Cardinality(Commits(k)) = n

\* the lines between the previous ';' and line k
Block(k) == {j \in 1..(k - 1) : \A c \in Commits(k - 1) : c < j}

\* the last line of a block that sets slot opc
Setting(block, opc) ==
    {j \in block : /\ Meaning(file[j]) # None
                   /\ Unwrap(Meaning(file[j]))[1] = opc
                   /\ \A i \in block : (i > j /\ Meaning(file[i]) # None)
                                          => Unwrap(Meaning(file[i]))[1] # opc}

Grouped(k) ==
    [opc \in {"ldi", "ldr", "str", "add", "sub", "mul"} |->
        IF Setting(Block(k), opc) = {} THEN None
        ELSE Some(Unwrap(Meaning(file[CHOOSE j \in Setting(Block(k), opc) : TRUE]))[2])]

C32_InstructionGrouping ==
    /\ Len(program) = Cardinality(Commits(lineno))
    /\ \A n \in 1..Len(program) : program[n] = Grouped(Commit(n))
    /\ Parsed => Unwrap(outcome) = Ok(program) /\ lineno = Len(file)

\* ldi 0 1 / ; / ; has been read: an ldi instruction, then a bubble
C32_Witness ==
    /\ file = <<LdiLine, CommitLine, CommitLine>>
    /\ outcome = Some(Ok(<<with_ldi(NewInstruction, 0, 1), NewInstruction>>))

\* add 1 0 0 / ldi 0 1 / ; has been read into one instruction of two slots
C32_WitnessTwoSlots ==
    /\ file = <<AddLine, LdiLine, CommitLine>>
    /\ Parsed
    /\ Len(program) = 1
    /\ ActiveSlots(program[1]) = 2

(***************************************************************************)
(* C33  Duplicate slot is last-writer-wins: when an opcode appears twice   *)
(* between two ';' lines, or a with_<op> builder is called twice, the      *)
(* later operands replace the earlier ones for that slot and every other   *)
(* slot is unchanged, so the instruction issues one operation for it.      *)
(***************************************************************************)
\* the ldi lines of the block of the n-th ';'
LdiLines(n) == {j \in Block(Commit(n)) : file[j] \in {LdiLine, LdiAgainLine}}

AnyOperands == {<<0, 1>>, <<2, 3>>}
AnyInstructions == {NewInstruction, with_add(NewInstruction, 1, 0, 0),
                    with_ldi(with_str(NewInstruction, 0, 0), 7, 7)}

C33_DuplicateSlot ==
    /\ \A n \in 1..Len(program) :
          LdiLines(n) # {} =>
             LET later == CHOOSE j \in LdiLines(n) : \A i \in LdiLines(n) : i <= j
                 issue == begin_execution(Self, program[n])
             IN /\ program[n].ldi = Some(Unwrap(Meaning(file[later]))[2])
                /\ program[n].add = None <=>
                      (\A j \in Block(Commit(n)) : file[j] # AddLine)
                /\ program[n].add = None =>
                      /\ issue.err = None
                      /\ Len(issue.self.pending_operations) = 1
                      /\ issue.self.pending_operations[1].output.id
                            = Unwrap(Meaning(file[later]))[2][1]
    /\ lineno = 0 =>
          \A i \in AnyInstructions : \A a, b \in AnyOperands :
             /\ with_ldi(with_ldi(i, a[1], a[2]), b[1], b[2]) = with_ldi(i, b[1], b[2])
             /\ with_ldi(i, b[1], b[2]) = [i EXCEPT !.ldi = Some(b)]
             /\ with_str(with_str(i, a[1], a[2]), b[1], b[2]) = [i EXCEPT !.str = Some(b)]
             /\ with_ldr(with_ldr(i, a[1], a[2]), b[1], b[2]) = [i EXCEPT !.ldr = Some(b)]
             /\ with_add(with_add(i, a[1], a[2], 0), b[1], b[2], 1)
                   = [i EXCEPT !.add = Some(<<b[1], b[2], 1>>)]
             /\ with_sub(with_sub(i, a[1], a[2], 0), b[1], b[2], 1)
                   = [i EXCEPT !.sub = Some(<<b[1], b[2], 1>>)]
             /\ with_mul(with_mul(i, a[1], a[2], 0), b[1], b[2], 1)
                   = [i EXCEPT !.mul = Some(<<b[1], b[2], 1>>)]

\* ldi 0 1 / ldi 2 3 / ; has been read: the instruction loads 3 into r2
C33_Witness ==
    /\ file = <<LdiLine, LdiAgainLine, CommitLine>>
    /\ outcome = Some(Ok(<<with_ldi(NewInstruction, 2, 3)>>))

(***************************************************************************)
(* C34  An instruction with an add and a sub to one valid register, both   *)
(* issued, collides with itself: both are due on the instruction's cycle   *)
(* + 2, and with allow_data_race false the compute call fails, with        *)
(* RegisterDataRace {reg dst, pc cycle + 1, inst1 = inst2 = cycle} unless  *)
(* an error came first: any error of an earlier cycle, an issue error of   *)
(* cycle + 1, or a race of cycle + 1 met with a third operation due then.  *)
(***************************************************************************)
\* entries k and m are the add and the sub of one instruction of the last
\* compute call, to one register
SelfCollision(k, m) ==
    /\ issued[k].opcode = "add"
    /\ issued[m].opcode = "sub"
    /\ issued[k].call = calls /\ issued[m].call = calls
    /\ issued[k].pc = issued[m].pc
    /\ issued[k].ip = issued[m].ip
    /\ issued[k].operands[1] = issued[m].operands[1]

\* error e came before the race of entries k and m, issued on cycle c
CameFirst(e, k, m, c) ==
    /\ e # Terminated
    /\ \/ e[3] <= c
       \/ e[3] = c + 1 /\ IsIssueError(result)
       \/ /\ e[3] = c + 1
          /\ IsRace(result)
          /\ \E j \in 1..Len(issued) :
                /\ j \notin {k, m}
                /\ issued[j].op.complete_by = c + 2
                /\ issued[j].op.started_at \in {e[4], e[5]}

C34_AddSubCollision ==
    \A k, m \in 1..Len(issued) :
        SelfCollision(k, m) =>
            LET c == issued[k].pc
                dst == issued[k].operands[1]
            IN /\ issued[k].op.complete_by = c + 2
               /\ issued[m].op.complete_by = c + 2
               /\ issued[k].op.started_at = c /\ issued[m].op.started_at = c
               /\ (Returned /\ ~allow_data_race) =>
                     /\ IsError(result)
                     /\ \/ ErrorOf(result) = RegisterDataRace(dst, c + 1, c, c)
                        \/ CameFirst(ErrorOf(result), k, m, c)

\* ldi r0 1; add r1 r0 r0 | sub r1 r0 r0 has failed on cycle 2 with the race
\* of the instruction of cycle 1 with itself
C34_Witness ==
    /\ Len(issued) = 3
    /\ SelfCollision(2, 3)
    /\ issued[2].pc = 1
    /\ Returned
    /\ result = Some(Err(RegisterDataRace(1, 2, 1, 1)))

(***************************************************************************)
(* C35  State on a race failure: when end_cycle returns a data-race error, *)
(* every operation popped before the last one has written (so the first of *)
(* the two racing writes is in its destination), the last one popped, the  *)
(* second racing write, has not, pc is the pc before the call, and the     *)
(* heap holds exactly the operations that were not popped.                 *)
(***************************************************************************)
\* the operations popped before the last one that write destination id of
\* the kind
WritersBefore(kind, id) ==
    {i \in 1..(Len(popped) - 1) :
        popped[i].output.kind = kind /\ popped[i].output.id = id}

\* what destination id holds after the writes popped before the last one
AfterWrites(kind, id, before) ==
    IF WritersBefore(kind, id) = {} THEN before
    ELSE LET w == CHOOSE i \in WritersBefore(kind, id) :
                      \A j \in WritersBefore(kind, id) : j <= i
         IN Some(popped[w].output.value)

HeapUids(heap) == {heap[i].uid : i \in 1..Len(heap)}

C35_StateOnRace ==
    (EndCycleFailed /\ IsRace(result)) =>
        /\ Len(popped) >= 2
        /\ ~PreState.allow_data_race
        /\ pc = PreState.pc
        /\ \A r \in 0..(REGISTER_COUNT - 1) :
              regs[r] = AfterWrites("WriteToRegister", r, PreState.regs[r])
        /\ DOMAIN mem = DOMAIN PreState.mem
              \cup {popped[i].output.id : i \in {j \in 1..(Len(popped) - 1) :
                                                  popped[j].output.kind = "WriteToMemory"}}
        /\ \A a \in DOMAIN mem :
              Some(mem[a]) = AfterWrites("WriteToMemory", a,
                                 IF a \in DOMAIN PreState.mem
                                 THEN Some(PreState.mem[a]) ELSE None)
        /\ LET first == popped[Len(popped) - 1]
               second == popped[Len(popped)]
           IN /\ SameDestination(first, second)
              /\ first.output.kind = "WriteToRegister"
                    => regs[first.output.id] = Some(first.output.value)
              /\ first.output.kind = "WriteToMemory"
                    => mem[first.output.id] = first.output.value
              /\ second.uid \notin HeapUids(pending_operations)
        /\ HeapUids(pending_operations)
              = HeapUids(PreState.pending_operations) \ HeapUids(popped)
        /\ Len(pending_operations) = Len(PreState.pending_operations) - Len(popped)
        /\ Len(issued) = PreState.nissued

\* a race has been met on the third pop: the first operation popped wrote
\* before the racing pair
C35_Witness ==
    /\ EndCycleFailed
    /\ IsRace(result)
    /\ Len(popped) = 3
    /\ ~SameDestination(popped[1], popped[2])

\* a race has failed the cycle with operations left in the heap, and the
\* second racing write would have changed the register
C35_WitnessPending ==
    /\ EndCycleFailed
    /\ IsRace(result)
    /\ pending_operations # <<>>
    /\ popped[Len(popped)].output.value # popped[Len(popped) - 1].output.value

(***************************************************************************)
(* C36  A compute call that returns Terminated changes nothing: the        *)
(* registers, the memory, pc, the pending heap and allow_data_race are the *)
(* same after the call as before it, and the call issued nothing.          *)
(***************************************************************************)
ReturnedTerminated == last = "compute" /\ result = Some(Err(Terminated))

C36_TerminatedFrame ==
    ReturnedTerminated =>
        /\ PreState.pc # 0
        /\ regs = PreState.regs
        /\ mem = PreState.mem
        /\ pc = PreState.pc
        /\ pending_operations = PreState.pending_operations
        /\ allow_data_race = PreState.allow_data_race
        /\ Len(issued) = PreState.nissued
        /\ Len(retired) = PreState.nretired
        /\ phase = "idle"

\* a machine that failed after cycle 0 with operations in its heap and the
\* flag set since has refused a compute call
C36_Witness ==
    /\ ReturnedTerminated
    /\ pending_operations # <<>>
    /\ \E r \in 0..(REGISTER_COUNT - 1) : regs[r] # None
    /\ allow_data_race

(***************************************************************************)
(* C37  Retire order is irrelevant without races: after an end_cycle whose *)
(* retiring operations have pairwise different destinations, the registers *)
(* and the memory are those that the writes of these operations give in    *)
(* every order, so tie-breaking among same-cycle operations does not show. *)
(***************************************************************************)
\* the orders in which n operations can be popped
Orders(n) == {f \in [1..n -> 1..n] : \A i, j \in 1..n : f[i] = f[j] => i = j}

\* the machine after the writes of ops in the order f, the first k of them
RECURSIVE WrittenInOrder(_, _, _, _)
WrittenInOrder(s, ops, f, k) ==
    IF k = 0 THEN s
    ELSE Retire(WrittenInOrder(s, ops, f, k - 1), ops[f[k]])

RaceFree(ops) ==
    \A i, j \in 1..Len(ops) : i # j => ~SameDestination(ops[i], ops[j])

C37_RetireOrderIrrelevant ==
    (EndCycleStep /\ ~EndCycleFailed /\ RaceFree(popped)) =>
        \A f \in Orders(Len(popped)) :
            LET s == WrittenInOrder([regs |-> PreState.regs, mem |-> PreState.mem,
                                     issued |-> issued],
                                    popped, f, Len(popped))
            IN s.regs = regs /\ s.mem = mem

\* an add of r1 and an ldi of r0, a source of the add, have retired in one
\* cycle
C37_Witness ==
    /\ EndCycleStep
    /\ ~EndCycleFailed
    /\ RaceFree(popped)
    /\ \E i, j \in 1..Len(popped) :
          /\ i # j
          /\ EntryOf(popped[i]).opcode = "add"
          /\ popped[j].output.kind = "WriteToRegister"
          /\ popped[j].output.id \in {EntryOf(popped[i]).operands[2],
                                      EntryOf(popped[i]).operands[3]}

(***************************************************************************)
(* C38  Register file and memory only grow: the register file always has   *)
(* exactly REGISTER_COUNT slots, no step of any compute call empties a     *)
(* register that holds a value, and no step removes an address from        *)
(* memory, whether it was there initially or put there by a str.           *)
(***************************************************************************)
C38_OnlyGrow ==
    /\ DOMAIN regs = 0..(REGISTER_COUNT - 1)
    /\ DOMAIN InitialMemory \subseteq DOMAIN mem
    /\ pre # None =>
          /\ DOMAIN PreState.regs = DOMAIN regs
          /\ \A r \in DOMAIN regs : PreState.regs[r] # None => regs[r] # None
          /\ DOMAIN PreState.mem \subseteq DOMAIN mem
          /\ \A k \in 1..Len(retired) :
                /\ retired[k].output.kind = "WriteToMemory"
                      => retired[k].output.id \in DOMAIN mem
                /\ retired[k].output.kind = "WriteToRegister"
                      => regs[retired[k].output.id] # None

\* a str has put address 1 into memory beside address 0, and a later
\* compute call has been refused
C38_Witness ==
    /\ DOMAIN mem = {0, 1}
    /\ regs[0] # None
    /\ calls >= 2
    /\ last = "compute"

====
